---- MODULE Spec2Model ----
(***************************************************************************)
(* Conversational slot-filling engine of src/app/talk_to_fill.py.          *)
(*                                                                         *)
(* Text is modelled as a sequence of tokens.  A field identifier is split  *)
(* at "." and "_" (both kept as tokens), a field value is split into its   *)
(* characters, Korean text is romanised and split into syllables or words. *)
(* Python's `pattern in text` is then a contiguous-subsequence test.       *)
(***************************************************************************)
EXTENDS Integers, Sequences, FiniteSets, TLC

\* in_flight holds the chat requests that have arrived and whose coroutine has
\* not returned yet, each with the position it is at
VARIABLES form_session_store, chat_history_store, last, in_flight

vars == <<form_session_store, chat_history_store, last, in_flight>>

----------------------------------------------------------------------------
(* Text helpers *)

\* Python: pat in text
Contains(text, pat) ==
  \E i \in 0..(Len(text) - Len(pat)) : SubSeq(text, i + 1, i + Len(pat)) = pat

\* Python: any(k in text for k in keywords)
ContainsAny(text, keywords) == \E k \in keywords : Contains(text, k)

\* Python: text.endswith(<one token>)
EndsWith(text, tok) == Len(text) > 0 /\ text[Len(text)] = tok

SeqToSet(s) == {s[i] : i \in 1..Len(s)}

EMPTY == <<>>
NA == <<"N", "/", "A">>

Digits == <<"0", "1", "2", "3", "4", "5", "6", "7", "8", "9">>

DigitValue(c) == CHOOSE d \in 0..9 : Digits[d + 1] = c

IsDigit(c) == c \in SeqToSet(Digits)

RECURSIVE DigitsToNat(_)
DigitsToNat(ds) ==
  IF Len(ds) = 0 THEN 0
  ELSE 10 * DigitsToNat(SubSeq(ds, 1, Len(ds) - 1)) + DigitValue(ds[Len(ds)])

\* Python int(str): an optional sign followed by decimal digits, else ValueError
IntParses(v) ==
  LET body == IF Len(v) > 0 /\ v[1] \in {"+", "-"} THEN Tail(v) ELSE v
  IN Len(body) > 0 /\ \A i \in 1..Len(body) : IsDigit(body[i])

IntOf(v) ==
  IF v[1] = "-" THEN 0 - DigitsToNat(Tail(v))
  ELSE IF v[1] = "+" THEN DigitsToNat(Tail(v))
  ELSE DigitsToNat(v)

RECURSIVE NatToStr(_)
NatToStr(n) ==
  IF n < 10 THEN <<Digits[n + 1]>>
  ELSE NatToStr(n \div 10) \o <<Digits[(n % 10) + 1]>>

\* Python str(int)
IntToStr(n) == IF n < 0 THEN <<"-">> \o NatToStr(0 - n) ELSE NatToStr(n)

----------------------------------------------------------------------------
(* Field identifiers *)

delegator_name == <<"delegator", ".", "name">>
signature_applicant_name == <<"signature", ".", "applicant", "_", "name">>
applicant_phone == <<"applicant", ".", "phone">>
guardian_name == <<"guardian", ".", "name">>
guardian_phone == <<"guardian", ".", "phone">>
receive_period == <<"receive", "_", "period">>
start_year == <<"start", "_", "year">>
start_month == <<"start", "_", "month">>
end_year == <<"end", "_", "year">>
end_month == <<"end", "_", "month">>
total_months == <<"total", "_", "months">>
Dot == <<".">>
guardian_exists_field == <<"__", "guardian", "_", "exists", "__">>

\* Categories (CATEGORY_FOLDER_MAP keys, romanised)
Monthly == "cheongnyeon-wolse"
Salary == "jugeo-geubyeo"
Report == "jeonip-singo"
Welfare == "gungmin-yeongeum"
Land == "toji-geonchungmul"

\* The per-category common-field groups, in list order
MonthlyGroups ==
  << {delegator_name, <<"recipient", ".", "name">>, signature_applicant_name,
      <<"signature", ".", "reporter", "_", "name">>},
     {<<"delegator", ".", "birthdate">>, <<"recipient", ".", "birthdate">>},
     {<<"delegator", ".", "number">>, <<"recipient", ".", "number">>},
     {<<"recipient", ".", "mobile">>},
     {<<"delegator", ".", "address">>, <<"recipient", ".", "address">>},
     {<<"delegate", ".", "name">>, <<"representative", "_", "recipient", ".", "name">>},
     {<<"delegate", ".", "birthdate">>, <<"representative", "_", "recipient", ".", "birthdate">>},
     {<<"delegate", ".", "number">>, <<"representative", "_", "recipient", ".", "phone">>,
      <<"representative", "_", "recipient", ".", "number">>},
     {<<"delegate", ".", "address">>, <<"representative", "_", "recipient", ".", "address">>},
     {<<"delegate", ".", "relationship", "_", "to", "_", "delegator">>,
      <<"representative", "_", "recipient", ".", "relationship", "_", "to", "_", "recipient">>} >>

SalaryGroups ==
  << {<<"recipient", ".", "name">>, <<"applicant", ".", "name">>, signature_applicant_name,
      <<"signature", ".", "reporter", "_", "name">>, <<"bank", "_", "account", ".", "name">>},
     {<<"recipient", ".", "birthdate">>},
     {<<"applicant", ".", "resident", "_", "number">>},
     {applicant_phone},
     {<<"applicant", ".", "mobile">>},
     {<<"recipient", ".", "address">>, <<"applicant", ".", "address", ".", "registered">>},
     {<<"bank", "_", "account", ".", "bank", "_", "name">>},
     {<<"bank", "_", "account", ".", "account", "_", "number">>} >>

WelfareGroups ==
  << {<<"person", ".", "name">>, <<"reporter", ".", "name">>, <<"subscriber", ".", "name">>,
      signature_applicant_name, <<"signature", ".", "reporter", "_", "name">>},
     {<<"person", ".", "resident", "_", "number">>, <<"reporter", ".", "resident", "_", "number">>,
      <<"subscriber", ".", "resident", "_", "number">>},
     {<<"person", ".", "phone">>, <<"reporter", ".", "phone">>, <<"subscriber", ".", "phone">>},
     {<<"person", ".", "mobile">>, <<"reporter", ".", "mobile">>, <<"subscriber", ".", "mobile">>},
     {<<"person", ".", "address">>, <<"reporter", ".", "address">>,
      <<"subscriber", ".", "address">>} >>

\* Python: COMMON_FIELD_GROUPS_BY_CATEGORY.get(category, [])
COMMON_FIELD_GROUPS_BY_CATEGORY(category) ==
  IF category = Monthly THEN MonthlyGroups
  ELSE IF category = Salary THEN SalaryGroups
  ELSE IF category = Welfare THEN WelfareGroups
  ELSE << >>

----------------------------------------------------------------------------
(* Document templates.  The template files are data outside the code; these *)
(* are the template sets the model is run on.  Each document lists its      *)
(* fields in file order, with the description taken from the field's        *)
(* trailing comment.                                                        *)

Field(prefix, name) == prefix \o Dot \o name

Doc(name, order, descriptions) ==
  [name |-> name, order |-> order, descriptions |-> descriptions]

MonthlyTemplates ==
  << Doc("wiimjang",
         <<delegator_name, signature_applicant_name>>,
         (delegator_name :> <<"wiimhaneun", " ", "saram", " ", "ireum">>)
           @@ (signature_applicant_name :> <<"sincheongin", " ", "seomyeong">>)),
     Doc("daerisuryeong",
         <<signature_applicant_name>>,
         (signature_applicant_name :> <<"sincheongin", " ", "seomyeong">>)) >>

SalaryTemplates ==
  << Doc("sahoebojang",
         <<guardian_name, applicant_phone>>,
         (guardian_name :> <<"hugyeonin", " ", "ireum">>)
           @@ (applicant_phone :> <<"sincheongin", " ", "jeonhwa", "beonho">>)),
     Doc("geullohwaldong",
         <<guardian_phone>>,
         (guardian_phone :> <<"hugyeonin", " ", "jeonhwa", "beonho">>)) >>

ReportTemplates ==
  << Doc("jeonipsingoseo",
         <<Field(receive_period, start_year), Field(receive_period, start_month),
           Field(receive_period, end_year), Field(receive_period, end_month),
           Field(receive_period, total_months)>>,
         (Field(receive_period, start_year) :> <<"suryeong", " ", "sijak", " ", "yeondo">>)
           @@ (Field(receive_period, start_month) :> <<"suryeong", " ", "sijak", " ", "wol">>)
           @@ (Field(receive_period, end_year) :> <<"suryeong", " ", "jongryo", " ", "yeondo">>)
           @@ (Field(receive_period, end_month) :> <<"suryeong", " ", "jongryo", " ", "wol">>)
           @@ (Field(receive_period, total_months) :> <<"suryeong", " ", "gaewolsu">>)) >>

\* Two documents that both carry the applicant's signature name
WelfareTemplates ==
  << Doc("yeongeum-singoseo",
         <<signature_applicant_name>>,
         (signature_applicant_name :> <<"sincheongin", " ", "seomyeong">>)),
     Doc("gaipja-jeungmyeongseo",
         <<signature_applicant_name>>,
         (signature_applicant_name :> <<"sincheongin", " ", "seomyeong">>)) >>

\* Two documents that both carry the land's address, a field of no group
\* (the category has no common-field groups)
LandTemplates ==
  << Doc("toji-daejang",
         << <<"land", ".", "address">> >>,
         (<<"land", ".", "address">> :> <<"toji", " ", "juso">>)),
     Doc("geonchungmul-daejang",
         << <<"land", ".", "address">>, <<"owner", ".", "name">> >>,
         (<<"land", ".", "address">> :> <<"toji", " ", "juso">>)
           @@ (<<"owner", ".", "name">> :> <<"soyuja", " ", "ireum">>)) >>

\* load_category_documents_with_descriptions: documents in directory order
Templates(category) ==
  IF category = Monthly THEN MonthlyTemplates
  ELSE IF category = Salary THEN SalaryTemplates
  ELSE IF category = Report THEN ReportTemplates
  ELSE IF category = Welfare THEN WelfareTemplates
  ELSE IF category = Land THEN LandTemplates
  ELSE << >>


\* The values a user states for a field
Kim == <<"K", "i", "m">>
Y2024 == <<"2", "0", "2", "4">>
Y2025 == <<"2", "0", "2", "5">>
M01 == <<"0", "1">>
M03 == <<"0", "3">>

ValuesFor(field) ==
  IF Contains(field, <<"year">>) THEN {EMPTY, Y2024, Y2025}
  ELSE IF Contains(field, <<"month">>) THEN {EMPTY, NA, M01, M03}
  ELSE IF Contains(field, <<"months">>) THEN {EMPTY, NA, M03}
  ELSE {EMPTY, NA, Kim}

----------------------------------------------------------------------------
(* Sessions *)

SessionIds == {"s1"}

NoneValue == "None"


DocNames(session) == {session.documents[i].name : i \in 1..Len(session.documents)}

FieldIds(session) ==
  UNION {DOMAIN session.documents[i].fields : i \in 1..Len(session.documents)}

DocIndex(session, document_name) ==
  CHOOSE i \in 1..Len(session.documents) : session.documents[i].name = document_name

\* Number of fields of a document whose value is not ""
NonEmptyCount(doc) == Cardinality({f \in DOMAIN doc.fields : doc.fields[f] # EMPTY})

GroupOf(category, field) ==
  LET groups == COMMON_FIELD_GROUPS_BY_CATEGORY(category)
      hits == {g \in 1..Len(groups) : field \in groups[g]}
  IN IF hits = {} THEN 0 ELSE CHOOSE g \in hits : \A h \in hits : g <= h

\* A propagation that writes every other member of the group, filled or not
auto_fill_overwriting(session, source_field, value) ==
  LET groups == COMMON_FIELD_GROUPS_BY_CATEGORY(session.category)
      g == GroupOf(session.category, source_field)
  IN IF g = 0 THEN session
     ELSE
       LET Written(doc) == {f \in DOMAIN doc.fields : f \in groups[g] /\ f # source_field}
           Fill(doc) ==
             [doc EXCEPT !.fields = [f \in DOMAIN doc.fields |->
                                       IF f \in Written(doc) THEN value ELSE doc.fields[f]],
                         !.filled_count =
                            @ + Cardinality({f \in Written(doc) : doc.fields[f] = EMPTY})]
       IN [session EXCEPT !.documents =
             [i \in 1..Len(session.documents) |-> Fill(session.documents[i])]]

auto_fill_common_fields(session, source_field, value) ==
  LET groups == COMMON_FIELD_GROUPS_BY_CATEGORY(session.category)
      g == GroupOf(session.category, source_field)
  IN IF g = 0 THEN session
     ELSE
       LET related_fields == groups[g]
           Written(doc) == {f \in DOMAIN doc.fields :
                              f \in related_fields /\ f # source_field /\ doc.fields[f] = EMPTY}
           Fill(doc) ==
             [doc EXCEPT !.fields = [f \in DOMAIN doc.fields |->
                                       IF f \in Written(doc) THEN value ELSE doc.fields[f]],
                         !.filled_count = @ + Cardinality(Written(doc))]
       IN [session EXCEPT !.documents =
             [i \in 1..Len(session.documents) |-> Fill(session.documents[i])]]

\* Python: field_name.rsplit(".", 1)[0]
RECURSIVE PrefixBeforeLastDot(_)
PrefixBeforeLastDot(field_name) ==
  IF field_name[Len(field_name)] = "." THEN SubSeq(field_name, 1, Len(field_name) - 1)
  ELSE PrefixBeforeLastDot(SubSeq(field_name, 1, Len(field_name) - 1))

date_field_patterns ==
  {start_year, start_month, end_year, end_month,
   <<"start", "_", "date">>, <<"end", "_", "date">>}

\* A month count that is not clamped at zero
PeriodMonthsSigned(sy, sm, ey, em) == (ey - sy) * 12 + (em - sm)

PeriodMonths(sy, sm, ey, em) ==
  LET total == (ey - sy) * 12 + (em - sm) IN IF total < 0 THEN 0 ELSE total

auto_calculate_period(session, document_name, field_name) ==
  IF ~ ContainsAny(field_name, date_field_patterns) THEN session
  ELSE IF ~ Contains(field_name, Dot) THEN session
  ELSE
    LET i == DocIndex(session, document_name)
        doc == session.documents[i]
        prefix == PrefixBeforeLastDot(field_name)
        sy_f == Field(prefix, start_year)
        sm_f == Field(prefix, start_month)
        ey_f == Field(prefix, end_year)
        em_f == Field(prefix, end_month)
        tm_f == Field(prefix, total_months)
    IN IF ~ ({sy_f, sm_f, ey_f, em_f, tm_f} \subseteq DOMAIN doc.fields) THEN session
       ELSE IF \E f \in {sy_f, sm_f, ey_f, em_f} : doc.fields[f] = EMPTY THEN session
       ELSE IF \E f \in {sy_f, sm_f, ey_f, em_f} : ~ IntParses(doc.fields[f]) THEN session
       ELSE
         LET months == PeriodMonths(IntOf(doc.fields[sy_f]), IntOf(doc.fields[sm_f]),
                                    IntOf(doc.fields[ey_f]), IntOf(doc.fields[em_f]))
             old_value == doc.fields[tm_f]
         IN [session EXCEPT
               !.documents[i].fields[tm_f] = IntToStr(months),
               !.documents[i].filled_count = IF old_value = EMPTY THEN @ + 1 ELSE @]

\* The return value of update_form_field
update_form_field_ok(session, document_name, field_name) ==
  /\ document_name \in DocNames(session)
  /\ field_name \in DOMAIN session.documents[DocIndex(session, document_name)].fields

\* The session after update_form_field
update_form_field(session, document_name, field_name, value) ==
  IF ~ update_form_field_ok(session, document_name, field_name) THEN session
  ELSE
    LET i == DocIndex(session, document_name)
        old_value == session.documents[i].fields[field_name]
        delta == IF old_value = EMPTY /\ value # EMPTY THEN 1
                 ELSE IF old_value # EMPTY /\ value = EMPTY THEN 0 - 1
                 ELSE 0
        written == [session EXCEPT !.documents[i].fields[field_name] = value,
                                   !.documents[i].filled_count = @ + delta]
    IN auto_calculate_period(auto_fill_common_fields(written, field_name, value),
                             document_name, field_name)

----------------------------------------------------------------------------
(* Unfilled-field resolution *)

auto_calculated_patterns == {total_months, <<"period">>, <<"duration">>, <<"total", "_", "days">>}

guardian_field_pattern == <<"guardian", ".">>

\* "후견인이 있으신가요?"
GuardianQuestion == <<"hugyeonin", "i", " ", "isseusin", "gayo", "?">>

\* Python: doc_data["descriptions"].get(field_name, field_name)
DescriptionOf(doc, field_name) ==
  IF field_name \in DOMAIN doc.descriptions THEN doc.descriptions[field_name] ELSE field_name

\* The (document, field) pairs of a session in iteration order: documents, then fields
\* A stored document keeps its fields and counters; the field order and the
\* descriptions never change and are read from the template it was built from.
RECURSIVE EntriesFrom(_, _)
EntriesFrom(session, i) ==
  IF i > Len(session.documents) THEN << >>
  ELSE LET doc == session.documents[i]
           template == Templates(session.category)[i]
       IN [k \in 1..Len(template.order) |->
             [document |-> doc.name, field |-> template.order[k],
              value |-> doc.fields[template.order[k]],
              description |-> DescriptionOf(template, template.order[k])]]
          \o EntriesFrom(session, i + 1)

Entries(session) == EntriesFrom(session, 1)

IsRealValue(v) == v # EMPTY /\ v # NA

\* A resolver that takes no group as satisfied
filled_groups_none(session) == {}

\* Indices of the groups in which some member in some document holds a real value
filled_groups(session) ==
  LET groups == COMMON_FIELD_GROUPS_BY_CATEGORY(session.category)
  IN {g \in 1..Len(groups) :
        \E field \in groups[g] : \E i \in 1..Len(session.documents) :
          /\ field \in DOMAIN session.documents[i].fields
          /\ IsRealValue(session.documents[i].fields[field])}

Candidate(e) == [document |-> e.document, field |-> e.field, description |-> e.description]

\* A loop that forgets which groups it has already listed
RECURSIVE DedupForgetful(_, _, _, _)
DedupForgetful(category, all_unfilled, filled, processed_common_groups) ==
  IF all_unfilled = << >> THEN << >>
  ELSE
    LET e == Head(all_unfilled)
        g == GroupOf(category, e.field)
    IN IF g # 0 /\ (g \in filled \/ g \in processed_common_groups) THEN
         DedupForgetful(category, Tail(all_unfilled), filled, processed_common_groups)
       ELSE
         <<Candidate(e)>> \o DedupForgetful(category, Tail(all_unfilled), filled,
                                            processed_common_groups)

\* The loop over all_unfilled_fields: one member per group not yet satisfied
RECURSIVE DedupCommon(_, _, _, _)
DedupCommon(category, all_unfilled, filled, processed_common_groups) ==
  IF all_unfilled = << >> THEN << >>
  ELSE
    LET e == Head(all_unfilled)
        g == GroupOf(category, e.field)
    IN IF g = 0 THEN
         <<Candidate(e)>> \o DedupCommon(category, Tail(all_unfilled), filled,
                                         processed_common_groups)
       ELSE IF g \in filled \/ g \in processed_common_groups THEN
         DedupCommon(category, Tail(all_unfilled), filled, processed_common_groups)
       ELSE
         <<Candidate(e)>> \o DedupCommon(category, Tail(all_unfilled), filled,
                                         processed_common_groups \cup {g})

\* An exclusion that never applies
GuardianNeverAbsent(session) == FALSE

\* An exclusion that looks at guardian_checked alone
GuardianChecked(session) == session.guardian_checked

GuardianAbsent(session) == session.guardian_checked /\ session.guardian_exists = "False"

\* A resolver that asks the guardian question whenever a guardian field is "",
\* whether or not the question has been answered
get_unfilled_fields_rechecking(session) ==
  LET entries == Entries(session)
      IsGuardian(e) == Contains(e.field, guardian_field_pattern)
      guardian_fields == SelectSeq(entries, LAMBDA e : IsGuardian(e) /\ e.value = EMPTY)
      Unfilled(e) ==
        /\ ~ ContainsAny(e.field, auto_calculated_patterns)
        /\ ~ (GuardianAbsent(session) /\ IsGuardian(e))
        /\ e.value = EMPTY
  IN IF guardian_fields # << >> THEN
       << [document |-> guardian_fields[1].document, field |-> guardian_exists_field,
           description |-> GuardianQuestion] >>
     ELSE DedupCommon(session.category, SelectSeq(entries, Unfilled),
                      filled_groups(session), {})

get_unfilled_fields(session) ==
  LET entries == Entries(session)
      IsGuardian(e) == Contains(e.field, guardian_field_pattern)
      has_guardian_fields == \E k \in 1..Len(entries) : IsGuardian(entries[k])
      guardian_fields == SelectSeq(entries, LAMBDA e : IsGuardian(e) /\ e.value = EMPTY)
      Unfilled(e) ==
        /\ ~ ContainsAny(e.field, auto_calculated_patterns)
        /\ ~ (GuardianAbsent(session) /\ IsGuardian(e))
        /\ e.value = EMPTY
  IN IF has_guardian_fields /\ ~ session.guardian_checked /\ guardian_fields # << >> THEN
       << [document |-> guardian_fields[1].document, field |-> guardian_exists_field,
           description |-> GuardianQuestion] >>
     ELSE DedupCommon(session.category, SelectSeq(entries, Unfilled),
                      filled_groups(session), {})

----------------------------------------------------------------------------
(* Session creation and export *)

init_form_session(category) ==
  LET documents == Templates(category)
      form_state ==
        [category |-> category,
         documents |-> [i \in 1..Len(documents) |->
                          [name |-> documents[i].name,
                           fields |-> [f \in SeqToSet(documents[i].order) |-> EMPTY],
                           filled_count |-> 0,
                           total_count |-> Len(documents[i].order)]],
         current_document |-> IF Len(documents) > 0 THEN documents[1].name ELSE NoneValue,
         completed |-> FALSE,
         guardian_checked |-> FALSE,
         guardian_exists |-> NoneValue,
         final_confirmation_shown |-> FALSE,
         initial_total_fields |-> 0]
  IN [form_state EXCEPT !.initial_total_fields = Len(get_unfilled_fields(form_state))]

\* One group of fill_common_fields_for_pdf.  The group is a Python set, so two
\* real values held by members of the same document are met in either order.
FillGroupForPdf(session, group) ==
  LET docs == session.documents
      RealIn(i) == {docs[i].fields[f] : f \in {m \in group \cap DOMAIN docs[i].fields :
                                                 IsRealValue(docs[i].fields[m])}}
      holders == {i \in 1..Len(docs) : RealIn(i) # {}}
  IN IF holders = {} THEN {session}
     ELSE
       LET first == CHOOSE i \in holders : \A j \in holders : i <= j
       IN {[session EXCEPT !.documents =
              [i \in 1..Len(docs) |->
                 [docs[i] EXCEPT !.fields =
                    [f \in DOMAIN docs[i].fields |->
                       IF f \in group /\ docs[i].fields[f] = EMPTY THEN filled_value
                       ELSE docs[i].fields[f]]]]]
            : filled_value \in RealIn(first)}

RECURSIVE FillGroupsFrom(_, _, _)
FillGroupsFrom(sessions, groups, g) ==
  IF g > Len(groups) THEN sessions
  ELSE FillGroupsFrom(UNION {FillGroupForPdf(s, groups[g]) : s \in sessions}, groups, g + 1)

\* The sessions fill_common_fields_for_pdf can leave
fill_common_fields_for_pdf(session) ==
  FillGroupsFrom({session}, COMMON_FIELD_GROUPS_BY_CATEGORY(session.category), 1)

\* The mapping get_filled_form returns
FilledForm(session) ==
  [category |-> session.category,
   documents |-> [i \in 1..Len(session.documents) |->
                    [name |-> session.documents[i].name, fields |-> session.documents[i].fields]]]

----------------------------------------------------------------------------
(* Vocabulary of the dialogue turn handler (Korean, romanised) *)

\* "없", "아니", "아뇨", "아니요", "필요없", "해당없", "해당 없", "없어요", "없습니다"
guardian_negative_keywords ==
  { <<"eops">>, <<"a", "ni">>, <<"a", "nyo">>, <<"a", "ni", "yo">>, <<"pil", "yo", "eops">>,
    <<"hae", "dang", "eops">>, <<"hae", "dang", " ", "eops">>, <<"eops", "eo", "yo">>,
    <<"eops", "seup", "ni", "da">> }

\* "있", "예", "네", "있어요", "있습니다", "있어"
guardian_positive_keywords ==
  { <<"iss">>, <<"ye">>, <<"ne">>, <<"iss", "eo", "yo">>, <<"iss", "seup", "ni", "da">>,
    <<"iss", "eo">> }

\* "아니", "아뇨", "아니요", "싫어", "수정", "바꿔", "고쳐", "틀렸", "잘못", "보여줘",
\* "확인", "다시", "보기", "체크"
confirmation_negative_keywords ==
  { <<"a", "ni">>, <<"a", "nyo">>, <<"a", "ni", "yo">>, <<"silh", "eo">>, <<"su", "jeong">>,
    <<"ba", "kkwo">>, <<"go", "chyeo">>, <<"teul", "ryeoss">>, <<"jal", "mot">>,
    <<"bo", "yeo", "jwo">>, <<"hwak", "in">>, <<"da", "si">>, <<"bo", "gi">>, <<"che", "keu">> }

\* "필요없", "해당없", "해당 없", "모르겠", "없어", "아니", "건너뛰", "스킵"
skip_keywords ==
  { <<"pil", "yo", "eops">>, <<"hae", "dang", "eops">>, <<"hae", "dang", " ", "eops">>,
    <<"mo", "reu", "gess">>, <<"eops", "eo">>, <<"a", "ni">>, <<"geon", "neo", "ttwi">>,
    <<"seu", "kip">> }

\* The completion and closing phrases a generated turn may not contain
completion_keywords ==
  { <<"jakseong", " ", "wanryo">>, <<"wanryodoeeotseumnida">>, <<"wanryohaetseumnida">>,
    <<"kkeutnatseumnida">>, <<"modeun", " ", "jeongboga", " ", "ipryeok">>,
    <<"seoryuga", " ", "wanseong">>, <<"da", " ", "doeeotseumnida">>,
    <<"mamuridoeeotseumnida">>, <<"jakseongi", " ", "kkeut">>, <<"ipryeogi", " ", "wanryo">>,
    <<"modu", " ", "jakseong">>, <<"gamsahamnida">>, <<"sugohasyeotseumnida">>,
    <<"jechulhasigesseoyo">>, <<"jechulhasil">>, <<"hwaginhasyeonnayo">>, <<"hwaginhasil">>,
    <<"chugaro", " ", "piryohan">>, <<"deo", " ", "piryohan">>, <<"piryohasin", " ", "ge">>,
    <<"piryohan", " ", "sahangi">> }

\* "이 어떻게", "은 어떻게", "는 어떻게", "을 알려", "를 알려", "을 말씀", "를 말씀", "이 뭐",
\* "은 뭐", "는 뭐", "을 입력", "를 입력", "이요", "요?", "을 여쭤", "를 여쭤", "이 무엇",
\* "은 무엇", "는 무엇"
ask_suffixes ==
  { <<"i", " ", "eotteoke">>, <<"eun", " ", "eotteoke">>, <<"neun", " ", "eotteoke">>,
    <<"eul", " ", "allyeo">>, <<"reul", " ", "allyeo">>, <<"eul", " ", "malsseum">>,
    <<"reul", " ", "malsseum">>, <<"i", " ", "mwo">>, <<"eun", " ", "mwo">>,
    <<"neun", " ", "mwo">>, <<"eul", " ", "ipryeok">>, <<"reul", " ", "ipryeok">>,
    <<"i", "yo">>, <<"yo", "?">>, <<"eul", " ", "yeojjwo">>, <<"reul", " ", "yeojjwo">>,
    <<"i", " ", "mueot">>, <<"eun", " ", "mueot">>, <<"neun", " ", "mueot">> }

\* "알겠습니다."
Understood == <<"algetseumnida", ".">>

\* "는 어떻게 되시나요?"
HowIsIt == <<"neun", " ", "eotteoke", " ", "doesinayo", "?">>

\* "알겠습니다! 어떤 정보를 수정하시겠어요? 수정하실 내용을 말씀해주세요."
EditModeMessage ==
  <<"algetseumnida", "!", " ", "eotteon", " ", "jeongbo", "reul", " ", "sujeonghasigesseoyo",
    "?", " ", "sujeonghasil", " ", "naeyong", "eul", " ", "malsseum", "haejuseyo", ".">>

\* "알겠습니다. 후견인 관련 정보는 제외하겠습니다. {desc}는 어떻게 되시나요?"
GuardianExcludedMessage(desc) ==
  Understood \o <<" ", "hugyeonin", " ", "gwallyeon", " ", "jeongbo", "neun", " ",
                  "jeoehagetseumnida", ".", " ">> \o desc \o HowIsIt

\* "알겠습니다. {desc}는 어떻게 되시나요?"
NextFieldMessage(desc) == Understood \o <<" ">> \o desc \o HowIsIt

\* "후견인이 있으신가요, 없으신가요?"
GuardianReaskMessage ==
  <<"hugyeonin", "i", " ", "isseusin", "gayo", ",", " ", "eopseusin", "gayo", "?">>

\* "감사합니다. 제출이 완료되었습니다!"
SubmittedMessage == <<"gamsahamnida", ".", " ", "jechuri", " ", "wanryodoeeotseumnida", "!">>

\* "죄송합니다. 일시적인 오류가 발생했습니다. 다시 말씀해주시겠어요?"
GenerationErrorMessage ==
  <<"joesonghamnida", ".", " ", "iljeogin", " ", "oryuga", " ", "balsaenghaetseumnida", ".",
    " ", "dasi", " ", "malsseum", "haejusigesseoyo", "?">>

\* "다음 정보를 알려주시겠어요?"
GenericPrompt == <<"daeum", " ", "jeongbo", "reul", " ", "allyeo", "jusigesseoyo", "?">>

NewLine == "\n"

\* Python: seq[:n]
Take(seq, n) == SubSeq(seq, 1, IF Len(seq) < n THEN Len(seq) ELSE n)

RECURSIVE Join(_, _)
Join(items, sep) ==
  IF items = << >> THEN << >>
  ELSE IF Len(items) = 1 THEN items[1]
  ELSE items[1] \o sep \o Join(Tail(items), sep)

\* The summary lines of the final confirmation: per document the real values
\* among its first 10 fields, each value cut to 30 characters
RECURSIVE SummaryItemsFrom(_, _)
SummaryItemsFrom(session, i) ==
  IF i > Len(session.documents) THEN << >>
  ELSE
    LET doc == session.documents[i]
        template == Templates(session.category)[i]
        shown == SelectSeq(Take(template.order, 10), LAMBDA f : IsRealValue(doc.fields[f]))
        Display(v) == IF Len(v) > 30 THEN Take(v, 30) \o <<"...">> ELSE v
    IN [k \in 1..Len(shown) |->
          <<"*", " ">> \o DescriptionOf(template, shown[k]) \o <<":", " ">>
            \o Display(doc.fields[shown[k]])]
       \o SummaryItemsFrom(session, i + 1)

\* "모든 정보가 입력되었습니다! ... 입력하신 주요 내용: ... 이대로 제출하시겠습니까?"
ConfirmationMessage(session) ==
  LET summary_items == SummaryItemsFrom(session, 1)
      more_count == Len(summary_items) - 8
      summary_text ==
        Join(Take(summary_items, 8), <<NewLine>>)
          \o (IF more_count > 0
              THEN <<NewLine, "...", " ", "oe", " ">> \o IntToStr(more_count)
                     \o <<"gae", " ", "hangmok">>
              ELSE << >>)
  IN <<"modeun", " ", "jeongboga", " ", "ipryeokdoeeotseumnida", "!", NewLine, NewLine,
       "ipryeokhasin", " ", "juyo", " ", "naeyong", ":", NewLine>>
       \o summary_text
       \o <<NewLine, NewLine, "idaero", " ", "jechulhasigetseumnikka", "?">>

----------------------------------------------------------------------------
(* Chat history *)

Human(text) == [type |-> "human", content |-> text]
AI(text) == [type |-> "ai", content |-> text]

\* Python: seq[-n:]
LastN(seq, n) == IF Len(seq) > n THEN SubSeq(seq, Len(seq) - n + 1, Len(seq)) ELSE seq

\* The history store after get_chat_history(session_id)
get_chat_history(history_store, session_id) ==
  LET messages == IF session_id \in DOMAIN history_store THEN history_store[session_id]
                  ELSE << >>
  IN [k \in DOMAIN history_store \cup {session_id} |->
        IF k = session_id THEN (IF Len(messages) > 6 THEN LastN(messages, 6) ELSE messages)
        ELSE history_store[k]]

\* The content of the most recent AI message, "" when there is none
RECURSIVE LastAIMessage(_)
LastAIMessage(messages) ==
  IF messages = << >> THEN EMPTY
  ELSE IF messages[Len(messages)].type = "ai" THEN messages[Len(messages)].content
  ELSE LastAIMessage(SubSeq(messages, 1, Len(messages) - 1))

\* "처음 질문"
FirstQuestion == <<"cheoeum", " ", "jilmun">>

\* The last_question handed to the extraction service: the most recent AI
\* message of the loaded history, "처음 질문" when there is none or it is ""
LastQuestion(history_store, session_id) ==
  LET found == LastAIMessage(get_chat_history(history_store, session_id)[session_id])
  IN IF found = EMPTY THEN FirstQuestion ELSE found

----------------------------------------------------------------------------
(* Response validation *)

IsSpace(tok) == tok \in {" ", NewLine}

\* Python: text.strip()
RECURSIVE Strip(_)
Strip(text) ==
  IF text = << >> THEN text
  ELSE IF IsSpace(text[1]) THEN Strip(Tail(text))
  ELSE IF IsSpace(text[Len(text)]) THEN Strip(SubSeq(text, 1, Len(text) - 1))
  ELSE text

\* Python: text.split('\n')[-1]
RECURSIVE AfterLastNewLine(_)
AfterLastNewLine(text) ==
  IF text = << >> THEN text
  ELSE IF text[Len(text)] = NewLine THEN << >>
  ELSE AfterLastNewLine(SubSeq(text, 1, Len(text) - 1)) \o <<text[Len(text)]>>

\* Python: re.sub(r'\*\*([^*]+)\*\*', r'\1', line)
RECURSIVE StripBold(_)
StripBold(line) ==
  IF line = << >> THEN line
  ELSE
    LET closers == {j \in 3..Len(line) :
                      line[j] = "**" /\ \A k \in 2..(j - 1) : line[k] \notin {"*", "**"}}
    IN IF line[1] = "**" /\ closers # {}
       THEN LET j == CHOOSE c \in closers : TRUE
            IN SubSeq(line, 2, j - 1) \o StripBold(SubSeq(line, j + 1, Len(line)))
       ELSE <<line[1]>> \o StripBold(Tail(line))

LastLine(response_text) == StripBold(Strip(AfterLastNewLine(Strip(response_text))))

\* The words a filled description is matched by: the description itself and
\* the synonyms of the kind of datum it names
KeywordsOf(field_desc) ==
  {field_desc}
    \cup (IF Contains(field_desc, <<"ireum">>)
          THEN {<<"ireum">>, <<"seongham">>, <<"seongmyeong">>} ELSE {})
    \cup (IF Contains(field_desc, <<"saengnyeonworil">>)
          THEN {<<"saengnyeonworil">>, <<"saengil">>, <<"chulsaeng">>} ELSE {})
    \cup (IF Contains(field_desc, <<"juso">>)
          THEN {<<"juso">>, <<"geojuji">>, <<"saneun", " ", "got">>} ELSE {})
    \cup (IF Contains(field_desc, <<"jeonhwa">>) \/ Contains(field_desc, <<"beonho">>)
          THEN {<<"jeonhwa">>, <<"yeollakcheo">>, <<"beonho">>, <<"haendeupon">>,
                <<"hyudaepon">>} ELSE {})
    \cup (IF Contains(field_desc, <<"gwangye">>)
          THEN {<<"gwangye">>, <<"eotteon", " ", "sai">>} ELSE {})

\* Descriptions of the fields holding a real value
filled_field_descriptions(session) ==
  LET entries == Entries(session)
  IN {entries[k].description : k \in {n \in 1..Len(entries) : IsRealValue(entries[n].value)}}

filled_field_keywords(session) ==
  UNION {KeywordsOf(d) : d \in filled_field_descriptions(session)}

ContainsCompletion(response_text) == ContainsAny(response_text, completion_keywords)

EndsWithQuestion(response_text) == EndsWith(LastLine(response_text), "?")

\* Every keyword of the model is at least two characters long, so none is skipped
StartsAt(text, i, pat) ==
  i + Len(pat) - 1 <= Len(text) /\ SubSeq(text, i, i + Len(pat) - 1) = pat

\* Python: f"{keyword}{suffix}" in response_text, for some keyword and suffix
AsksFilledField(response_text, keywords) ==
  \E keyword \in keywords : \E i \in 1..Len(response_text) :
    /\ StartsAt(response_text, i, keyword)
    /\ \E suffix \in ask_suffixes : StartsAt(response_text, i + Len(keyword), suffix)

validation_failed(response_text, session) ==
  \/ ContainsCompletion(response_text)
  \/ ~ EndsWithQuestion(response_text)
  \/ AsksFilledField(response_text, filled_field_keywords(session))

\* The turn text after the validation step; unfilled is non-empty when it runs
validated_response(response_text, session, unfilled) ==
  IF response_text # << >> /\ validation_failed(response_text, session)
  THEN IF unfilled # << >> THEN NextFieldMessage(unfilled[1].description) ELSE GenericPrompt
  ELSE response_text

----------------------------------------------------------------------------
(* The dialogue turn handler *)

\* What the external services can answer.  The extraction service returns a
\* mapping, here a list of at most MaxExtracted (field, value) items; an error
\* or an answer without a JSON object gives the empty mapping.
MaxExtracted == 1

\* The field ids the service may name: with "any_field" every field of the
\* session and the pseudo-field, with "first_target" the first target only
ExtractableFields(session, unfilled, services) ==
  IF services.extraction = "any_field"
  THEN FieldIds(session) \cup {guardian_exists_field}
  ELSE {unfilled[1].field}

\* The mappings of at most n items over the given (field, value) items, in
\* the order the service lists them; a mapping names a field once
RECURSIVE Mappings(_, _)
Mappings(items, n) ==
  IF n = 0 THEN {<< >>}
  ELSE LET shorter == Mappings(items, n - 1)
       IN shorter \cup
          {Append(p[1], p[2]) :
             p \in {q \in shorter \X items :
                      \A k \in 1..Len(q[1]) : q[1][k].field # q[2].field}}

ExtractionOutcomes(session, unfilled, services) ==
  Mappings(UNION {{[field |-> f, value |-> v] : v \in ValuesFor(f) \cap services.values} :
                    f \in ExtractableFields(session, unfilled, services)},
           MaxExtracted)

\* What the call of the extraction service gives: it raises ("error"), it
\* answers with a text that holds no JSON object ("no_json": the text may name
\* fields and values all the same), or it answers with a JSON object
ExtractionResponses(session, unfilled, services) ==
  {[kind |-> "error", items |-> << >>]}
    \cup {[kind |-> k, items |-> m] :
            k \in {"no_json", "mapping"}, m \in ExtractionOutcomes(session, unfilled, services)}

\* A reading of the answer that takes the fields it names from any text
ExtractedLeniently(response) == response.items

\* The try block around the call: the object found by the pattern is the
\* mapping; no match, or an exception, gives {}
ExtractedFrom(response) ==
  IF response.kind = "mapping" THEN response.items ELSE << >>

\* "네. {desc}는 어떻게 되시나요?"
Ask(desc) == <<"ne", ".", " ">> \o desc \o HowIsIt

\* The generation service returns a turn or raises
Generated(text) == [kind |-> "ok", text |-> text]
GenerationError == [kind |-> "error", text |-> << >>]

\* The turns the generation service may produce, by kind
GenerationOutcomesOf(kind, session, unfilled) ==
  LET next_desc == unfilled[1].description
  IN CASE kind = "ask_next" -> {Generated(Ask(next_desc))}
       \* "네." / "**{desc}는 어떻게 되시나요?** "
       [] kind = "ask_next_bold" ->
            {Generated(<<"ne", ".", NewLine, "**">> \o next_desc \o HowIsIt \o <<"**", " ">>)}
       [] kind = "ask_filled" -> {Generated(Ask(d)) : d \in filled_field_descriptions(session)}
       \* "제출하실 준비가 되셨나요?"
       [] kind = "closing" ->
            {Generated(<<"jechulhasil", " ", "junbiga", " ", "doesyeonnayo", "?">>)}
       \* "네, 확인했습니다."
       [] kind = "statement" -> {Generated(<<"ne", ",", " ", "hwaginhaetseumnida", ".">>)}
       [] kind = "blank" -> {Generated(<< >>)}
       [] kind = "error" -> {GenerationError}

GenerationKinds ==
  {"ask_next", "ask_next_bold", "ask_filled", "closing", "statement", "blank", "error"}

GenerationOutcomes(session, unfilled, services) ==
  UNION {GenerationOutcomesOf(kind, session, unfilled) : kind \in services.generation}

\* The returned mapping; only the summary return carries awaiting_confirmation
Reply(response, extracted, unfilled_count, completed, kind) ==
  [response |-> response, extracted_fields |-> extracted, unfilled_count |-> unfilled_count,
   completed |-> completed, awaiting_confirmation |-> (kind = "summary"), kind |-> kind]

NoCall == FALSE

\* What a turn leaves and returns; extraction_response is what the extraction
\* service gave and extracted the mapping the extraction step obtained from it,
\* "none" and empty when the turn did not reach the step
Outcome(session, history_store, reply, extraction, generation) ==
  [session |-> session, history |-> history_store, reply |-> reply,
   extraction |-> extraction, extraction_response |-> "none", extracted |-> << >>,
   last_question |-> EMPTY, generation |-> generation]

NoGeneration == [kind |-> "none", text |-> << >>]

\* The loop over extracted.items(): the current document first, then the others
RECURSIVE UpdateFirstDocument(_, _, _, _)
UpdateFirstDocument(session, names, field_name, value) ==
  IF names = << >> THEN session
  ELSE IF update_form_field_ok(session, Head(names), field_name)
  THEN update_form_field(session, Head(names), field_name, value)
  ELSE UpdateFirstDocument(session, Tail(names), field_name, value)

RECURSIVE ApplyExtracted(_, _)
ApplyExtracted(session, extracted) ==
  IF extracted = << >> THEN session
  ELSE
    LET current_doc == session.current_document
        others == SelectSeq([i \in 1..Len(session.documents) |-> session.documents[i].name],
                            LAMBDA n : n # current_doc)
    IN ApplyExtracted(
         UpdateFirstDocument(session, <<current_doc>> \o others,
                             Head(extracted).field, Head(extracted).value),
         Tail(extracted))

\* The skip force-fill: "N/A" for each asked field, written through the current document
RECURSIVE ForceFill(_, _)
ForceFill(session, asked) ==
  IF asked = << >> THEN session
  ELSE ForceFill(IF Head(asked).field # guardian_exists_field
                 THEN update_form_field(session, session.current_document,
                                        Head(asked).field, NA)
                 ELSE session,
                 Tail(asked))

\* From the recomputed unfilled list to the returned turn
FinishTurn(session, history_store, session_id, user_input, extracted, extraction, services) ==
  LET unfilled == get_unfilled_fields(session)
  IN IF unfilled = << >> THEN
       IF ~ session.final_confirmation_shown THEN
         {Outcome([session EXCEPT !.final_confirmation_shown = TRUE], history_store,
                  Reply(ConfirmationMessage(session), << >>, 0, FALSE, "summary"),
                  extraction, NoGeneration)}
       ELSE
         {Outcome([session EXCEPT !.completed = TRUE], history_store,
                  Reply(SubmittedMessage, << >>, 0, TRUE, "submitted"),
                  extraction, NoGeneration)}
     ELSE
       LET loaded == get_chat_history(history_store, session_id)
       IN {LET response_text == IF g.kind = "ok" THEN g.text ELSE GenerationErrorMessage
               saved == IF g.kind = "ok"
                        THEN [loaded EXCEPT ![session_id] =
                                @ \o <<Human(user_input), AI(g.text)>>]
                        ELSE loaded
               final == validated_response(response_text, session, unfilled)
           IN Outcome(session, saved,
                      Reply(Take(final, 500), extracted, Len(unfilled), FALSE, "question"),
                      extraction, g)
           : g \in GenerationOutcomes(session, unfilled, services)}

\* A handler that calls the extraction service whatever the list holds, and
\* gets nothing from it
ExtractRegardless(session, history_store, session_id, user_input, unfilled, services) ==
  FinishTurn(session, get_chat_history(history_store, session_id), session_id, user_input,
             << >>, TRUE, services)

\* Extraction against the first five unfilled entries, the updates and the skip
ExtractAndFinish(session, history_store, session_id, user_input, unfilled, services) ==
  IF unfilled = << >> THEN
    FinishTurn(session, history_store, session_id, user_input, << >>, NoCall, services)
  ELSE
    LET loaded == get_chat_history(history_store, session_id)
        call == TRUE
    IN UNION {
         LET extracted == ExtractedFrom(response)
             updated == ApplyExtracted(session, extracted)
             skipped ==
               IF /\ ContainsAny(user_input, skip_keywords)
                  /\ extracted = << >>
                  /\ unfilled[1].field # guardian_exists_field
               THEN ForceFill(updated, Take(unfilled, 5))
               ELSE updated
         IN {[o EXCEPT !.extracted = extracted, !.extraction_response = response.kind,
                       !.last_question = LastQuestion(history_store, session_id)] :
               o \in FinishTurn(skipped, loaded, session_id, user_input, extracted, call,
                                services)}
         : response \in ExtractionResponses(session, unfilled, services)}

\* The session after the bulk fill of the guardian fields
FillGuardianFields(session) ==
  [session EXCEPT !.documents =
     [i \in 1..Len(session.documents) |->
        LET doc == session.documents[i]
            written == {f \in DOMAIN doc.fields :
                          Contains(f, guardian_field_pattern) /\ doc.fields[f] = EMPTY}
        IN [doc EXCEPT !.fields = [f \in DOMAIN doc.fields |->
                                     IF f \in written THEN NA ELSE doc.fields[f]],
                       !.filled_count = @ + Cardinality(written)]]]

GuardianStep(session, history_store, session_id, user_input, unfilled, services) ==
  LET has_negative == ContainsAny(user_input, guardian_negative_keywords)
      has_positive == ContainsAny(user_input, guardian_positive_keywords)
      absent == FillGuardianFields([session EXCEPT !.guardian_checked = TRUE,
                                                   !.guardian_exists = "False"])
      present == [session EXCEPT !.guardian_checked = TRUE, !.guardian_exists = "True"]
  IN IF has_negative /\ ~ has_positive THEN
       LET updated_unfilled == get_unfilled_fields(absent)
       IN IF updated_unfilled # << >> THEN
            {Outcome(absent, history_store,
                     Reply(GuardianExcludedMessage(updated_unfilled[1].description), << >>,
                           Len(updated_unfilled), FALSE, "guardian_absent"),
                     NoCall, NoGeneration)}
          ELSE ExtractAndFinish(absent, history_store, session_id, user_input, unfilled,
                                services)
     ELSE IF has_positive THEN
       LET updated_unfilled == get_unfilled_fields(present)
       IN IF updated_unfilled # << >> THEN
            {Outcome(present, history_store,
                     Reply(NextFieldMessage(updated_unfilled[1].description), << >>,
                           Len(updated_unfilled), FALSE, "guardian_present"),
                     NoCall, NoGeneration)}
          ELSE ExtractAndFinish(present, history_store, session_id, user_input, unfilled,
                                services)
     ELSE
       {Outcome(session, history_store,
                Reply(GuardianReaskMessage, << >>, Len(unfilled), FALSE, "guardian_reask"),
                NoCall, NoGeneration)}

\* A turn handler without the edit-mode check
process_without_edit_mode(session, history_store, session_id, user_input, services) ==
  LET unfilled == get_unfilled_fields(session)
  IN IF unfilled # << >> /\ unfilled[1].field = guardian_exists_field
     THEN GuardianStep(session, history_store, session_id, user_input, unfilled, services)
     ELSE ExtractAndFinish(session, history_store, session_id, user_input, unfilled, services)

\* The outcomes of process_form_conversation on a stored session
process_form_conversation(session, history_store, session_id, user_input, services) ==
  IF /\ session.final_confirmation_shown
     /\ ~ session.completed
     /\ ContainsAny(user_input, confirmation_negative_keywords)
  THEN {Outcome([session EXCEPT !.final_confirmation_shown = FALSE], history_store,
                Reply(EditModeMessage, << >>, 0, FALSE, "edit_mode"),
                NoCall, NoGeneration)}
  ELSE
    LET unfilled == get_unfilled_fields(session)
    IN IF unfilled # << >> /\ unfilled[1].field = guardian_exists_field
       THEN GuardianStep(session, history_store, session_id, user_input, unfilled, services)
       ELSE ExtractAndFinish(session, history_store, session_id, user_input, unfilled,
                             services)

\* What the user says in a turn:
\* "없어요", "네", "네, 없어요", "수정할게요"
U_none == <<"eops", "eo", "yo">>
U_yes == <<"ne">>
U_yes_none == <<"ne", ",", " ", "eops", "eo", "yo">>
U_modify == <<"su", "jeong", "hal", "ge", "yo">>

Utterances == {U_none, U_yes, U_yes_none, U_modify}

----------------------------------------------------------------------------
(* Operations *)

NoOp == [op |-> "none"]

Init ==
  /\ form_session_store = << >>
  /\ chat_history_store = << >>
  /\ last = NoOp
  /\ in_flight = << >>

HasSession(session_id) == session_id \in DOMAIN form_session_store

Put(store, key, value) == [k \in DOMAIN store \cup {key} |-> IF k = key THEN value ELSE store[k]]

\* A removal that removes nothing
PopNothing(store, key) == store

\* Python: store.pop(key, None)
Pop(store, key) == [k \in DOMAIN store \ {key} |-> store[k]]

\* POST /form/start
StartFormSession(session_id, category) ==
  /\ form_session_store' = Put(form_session_store, session_id, init_form_session(category))
  /\ UNCHANGED chat_history_store
  /\ last' = [op |-> "start", session_id |-> session_id, category |-> category]

\* update_form_field called on a session id
UpdateFormField(session_id, document_name, field_name, value) ==
  IF ~ HasSession(session_id) THEN
    /\ last' = [op |-> "update", session_id |-> session_id, ok |-> FALSE]
    /\ UNCHANGED <<form_session_store, chat_history_store>>
  ELSE
    LET session == form_session_store[session_id]
    IN /\ form_session_store' =
            [form_session_store EXCEPT
               ![session_id] = update_form_field(session, document_name, field_name, value)]
       /\ last' = [op |-> "update", session_id |-> session_id,
                   ok |-> update_form_field_ok(session, document_name, field_name)]
       /\ UNCHANGED chat_history_store

\* get_form_session called on a session id (GET /form/status)
GetFormSession(session_id) ==
  /\ last' = [op |-> "status", session_id |-> session_id,
              found |-> HasSession(session_id),
              result |-> IF HasSession(session_id) THEN form_session_store[session_id]
                         ELSE NoneValue]
  /\ UNCHANGED <<form_session_store, chat_history_store>>

\* get_filled_form called on a session id (GET /form/result)
GetFilledForm(session_id) ==
  IF ~ HasSession(session_id) THEN
    /\ last' = [op |-> "result", session_id |-> session_id, found |-> FALSE,
                result |-> NoneValue]
    /\ UNCHANGED <<form_session_store, chat_history_store>>
  ELSE
    /\ \E filled \in fill_common_fields_for_pdf(form_session_store[session_id]) :
         /\ form_session_store' = [form_session_store EXCEPT ![session_id] = filled]
         /\ last' = [op |-> "result", session_id |-> session_id, found |-> TRUE,
                     result |-> FilledForm(filled)]
    /\ UNCHANGED chat_history_store

\* A turn handler that goes on without a session and without a category
SessionNeverMissing(session_id, category) == FALSE

\* Python: not session and not category
SessionNotFound(session_id, category) == ~ HasSession(session_id) /\ category = NoneValue

\* POST /form/chat
FormChat(session_id, user_input, category, services) ==
  IF SessionNotFound(session_id, category) THEN
    /\ last' = [op |-> "chat", session_id |-> session_id, user_input |-> user_input,
                category |-> category, created |-> FALSE, error |-> TRUE]
    /\ UNCHANGED <<form_session_store, chat_history_store>>
  ELSE
    LET created == ~ HasSession(session_id)
        session == IF created THEN init_form_session(category)
                   ELSE form_session_store[session_id]
    IN \E o \in process_form_conversation(session, chat_history_store, session_id,
                                          user_input, services) :
         /\ form_session_store' = Put(form_session_store, session_id, o.session)
         /\ chat_history_store' = o.history
         /\ last' = [op |-> "chat", session_id |-> session_id, user_input |-> user_input,
                     category |-> category, created |-> created, error |-> FALSE,
                     reply |-> o.reply,
                     extraction_called |-> o.extraction,
                     extraction_response |-> o.extraction_response,
                     extracted |-> o.extracted,
                     last_question |-> o.last_question,
                     generated |-> o.generation]

\* close_form_session called on a session id (DELETE /form/session)
CloseFormSession(session_id) ==
  /\ form_session_store' = Pop(form_session_store, session_id)
  /\ chat_history_store' = Pop(chat_history_store, session_id)
  /\ last' = [op |-> "close", session_id |-> session_id,
              found |-> HasSession(session_id),
              result |-> IF HasSession(session_id) THEN form_session_store[session_id]
                         ELSE NoneValue]

\* A resolver that records, in the session, that it has been asked
GetUnfilledFieldsRecording(session_id) ==
  /\ last' = [op |-> "unfilled", session_id |-> session_id,
              result |-> IF HasSession(session_id)
                         THEN get_unfilled_fields(form_session_store[session_id])
                         ELSE << >>]
  /\ form_session_store' =
       [id \in DOMAIN form_session_store |->
          IF id = session_id
          THEN [form_session_store[id] EXCEPT !.guardian_checked = TRUE]
          ELSE form_session_store[id]]
  /\ UNCHANGED chat_history_store

\* get_unfilled_fields called on a session id: [] for an unknown id, else the
\* list; the function reads the session and assigns to nothing in it
GetUnfilledFields(session_id) ==
  /\ last' = [op |-> "unfilled", session_id |-> session_id,
              result |-> IF HasSession(session_id)
                         THEN get_unfilled_fields(form_session_store[session_id])
                         ELSE << >>]
  /\ UNCHANGED <<form_session_store, chat_history_store>>

\* The event loop.  POST /form/chat is a coroutine on the server's event loop:
\* a request that has arrived waits in in_flight until the loop runs its
\* coroutine, and a running coroutine goes on until it returns or reaches an
\* await expression, where the loop may run another one.

\* A handler that awaits the answer of the extraction service
AwaitsExtraction == {"extraction"}

\* The positions at which process_form_conversation awaits: the function holds
\* no await expression, both services are called with the blocking invoke
AwaitPoints == {}

\* POST /form/chat arrives
SubmitChat(session_id, user_input, category) ==
  /\ in_flight' = Append(in_flight, [session_id |-> session_id, user_input |-> user_input,
                                     category |-> category, pc |-> "start",
                                     unfilled |-> << >>])
  /\ last' = [op |-> "submit", session_id |-> session_id]
  /\ UNCHANGED <<form_session_store, chat_history_store>>

Without(seq, k) == SubSeq(seq, 1, k - 1) \o SubSeq(seq, k + 1, Len(seq))

\* The loop runs the coroutine of request k up to its next await expression
\* or to its return
RunChat(k, services) ==
  LET r == in_flight[k]
      session == IF HasSession(r.session_id) THEN form_session_store[r.session_id]
                 ELSE init_form_session(r.category)
      unfilled == get_unfilled_fields(session)
      edit_mode == /\ session.final_confirmation_shown
                   /\ ~ session.completed
                   /\ ContainsAny(r.user_input, confirmation_negative_keywords)
  IN IF r.pc = "start" THEN
       IF /\ "extraction" \in AwaitPoints
          /\ ~ SessionNotFound(r.session_id, r.category)
          /\ ~ edit_mode
          /\ unfilled # << >>
          /\ unfilled[1].field # guardian_exists_field
       THEN /\ form_session_store' = Put(form_session_store, r.session_id, session)
            /\ in_flight' = [in_flight EXCEPT ![k].pc = "extraction",
                                              ![k].unfilled = unfilled]
            /\ last' = [op |-> "await", session_id |-> r.session_id]
            /\ UNCHANGED chat_history_store
       ELSE /\ FormChat(r.session_id, r.user_input, r.category, services)
            /\ in_flight' = Without(in_flight, k)
     ELSE
       IF ~ HasSession(r.session_id) THEN
         /\ in_flight' = Without(in_flight, k)
         /\ last' = [op |-> "chat", session_id |-> r.session_id,
                     user_input |-> r.user_input, category |-> r.category,
                     created |-> FALSE, error |-> TRUE]
         /\ UNCHANGED <<form_session_store, chat_history_store>>
       ELSE
         \E o \in ExtractAndFinish(form_session_store[r.session_id], chat_history_store,
                                   r.session_id, r.user_input, r.unfilled, services) :
           /\ form_session_store' = Put(form_session_store, r.session_id, o.session)
           /\ chat_history_store' = o.history
           /\ last' = [op |-> "chat", session_id |-> r.session_id,
                       user_input |-> r.user_input, category |-> r.category,
                       created |-> FALSE, error |-> FALSE, reply |-> o.reply,
                       extraction_called |-> o.extraction,
                       extraction_response |-> o.extraction_response,
                       extracted |-> o.extracted,
                       last_question |-> o.last_question, generated |-> o.generation]
           /\ in_flight' = Without(in_flight, k)

\* Bounds of the model: how far the filled_count values of a session may
\* drift, in total, from the numbers of non-empty fields of their documents,
\* and how many generated turns a history may hold, before the run is cut
MaxDrift == 1
MaxGenerated == 1
MaxTurns == 4
MaxInFlight == 2

RECURSIVE TotalDrift(_, _)
TotalDrift(documents, i) ==
  IF i > Len(documents) THEN 0
  ELSE LET drift == documents[i].filled_count - NonEmptyCount(documents[i])
       IN (IF drift < 0 THEN 0 - drift ELSE drift) + TotalDrift(documents, i + 1)

WithinBounds(max_generated) ==
  /\ \A id \in DOMAIN form_session_store :
       TotalDrift(form_session_store[id].documents, 1) <= MaxDrift
  /\ \A id \in DOMAIN chat_history_store :
       Len(chat_history_store[id]) <= 2 * max_generated

\* The inputs of a run: the categories sessions are created for, the values
\* written, what the user says and what the two external services may answer
UnknownDocument == "unknown"

AllValues == {EMPTY, NA, Kim, Y2024, Y2025, M01, M03}

\* Runs on the documents with common-field groups
GroupInputs ==
  [categories |-> {Monthly},
   values |-> AllValues,
   utterances |-> Utterances,
   services |-> [extraction |-> "first_target", values |-> {Kim},
                 generation |-> {"ask_next"}],
   turns |-> MaxGenerated]

\* Runs on the document with a period
PeriodInputs ==
  [categories |-> {Report},
   values |-> AllValues,
   utterances |-> {U_yes, U_modify},
   services |-> [extraction |-> "first_target", values |-> {Kim},
                 generation |-> {"ask_next"}],
   turns |-> MaxGenerated]

\* Runs on the documents with guardian fields; the extraction service may name
\* any field
GuardianInputs ==
  [categories |-> {Salary},
   values |-> {EMPTY, Kim},
   utterances |-> Utterances,
   services |-> [extraction |-> "any_field", values |-> {Kim},
                 generation |-> {"ask_next"}],
   turns |-> MaxGenerated]

\* Runs in which the generation service may produce every kind of turn
ValidatorInputs ==
  [categories |-> {Salary},
   values |-> {Kim},
   utterances |-> {U_yes, U_none},
   services |-> [extraction |-> "first_target", values |-> {Kim},
                 generation |-> GenerationKinds],
   turns |-> MaxGenerated]

\* Runs on two documents that share one field id; the user may skip
WelfareInputs ==
  [categories |-> {Welfare},
   values |-> {EMPTY, NA, Kim},
   utterances |-> {U_yes, U_none, U_modify},
   services |-> [extraction |-> "first_target", values |-> {Kim},
                 generation |-> {"ask_next"}],
   turns |-> MaxGenerated]

\* Runs on two documents that share a field of no group, with an extraction
\* service that returns a value for the first target field
LandInputs ==
  [categories |-> {Land},
   values |-> {EMPTY, Kim},
   utterances |-> {U_yes, U_none},
   services |-> [extraction |-> "first_target", values |-> {Kim},
                 generation |-> {"ask_next"}],
   turns |-> MaxGenerated]

\* Runs with up to MaxTurns generated turns in one history
HistoryInputs ==
  [categories |-> {Welfare},
   values |-> {EMPTY, Kim},
   utterances |-> {U_yes},
   services |-> [extraction |-> "first_target", values |-> {Kim},
                 generation |-> {"ask_next"}],
   turns |-> MaxTurns]

\* Runs over two categories: documents with common-field groups and documents
\* with guardian fields; in these runs the resolver is also called on its own
MixedInputs ==
  [categories |-> {Monthly, Salary},
   values |-> {EMPTY, NA, Kim},
   utterances |-> {U_yes, U_none},
   services |-> [extraction |-> "first_target", values |-> {Kim},
                 generation |-> {"ask_next"}],
   turns |-> MaxGenerated]

\* Runs in which chat requests arrive while others are in flight
ConcurrentInputs ==
  [categories |-> {Welfare},
   values |-> {EMPTY, Kim},
   utterances |-> {U_yes, U_none, U_modify},
   services |-> [extraction |-> "first_target", values |-> {Kim},
                 generation |-> {"ask_next"}],
   turns |-> MaxGenerated]

Step(inputs) ==
  \/ \E id \in SessionIds, c \in inputs.categories :
       StartFormSession(id, c) /\ WithinBounds(inputs.turns)' /\ UNCHANGED in_flight
  \/ \E id \in SessionIds :
       LET known == IF HasSession(id) THEN form_session_store[id]
                    ELSE init_form_session(CHOOSE c \in inputs.categories : TRUE)
       IN \E d \in DocNames(known) \cup {UnknownDocument}, f \in FieldIds(known) :
            \E v \in ValuesFor(f) \cap inputs.values :
              UpdateFormField(id, d, f, v) /\ WithinBounds(inputs.turns)' /\ UNCHANGED in_flight
  \/ \E id \in SessionIds, u \in inputs.utterances :
       \E c \in (IF HasSession(id) THEN {} ELSE inputs.categories) \cup {NoneValue} :
         FormChat(id, u, c, inputs.services) /\ WithinBounds(inputs.turns)' /\ UNCHANGED in_flight
  \/ \E id \in SessionIds : GetFormSession(id) /\ WithinBounds(inputs.turns)' /\ UNCHANGED in_flight
  \/ \E id \in SessionIds : GetFilledForm(id) /\ WithinBounds(inputs.turns)' /\ UNCHANGED in_flight
  \/ \E id \in SessionIds : CloseFormSession(id) /\ WithinBounds(inputs.turns)' /\ UNCHANGED in_flight

Next == Step(GroupInputs)

Spec == Init /\ [][Next]_vars

NextPeriod == Step(PeriodInputs)

SpecPeriod == Init /\ [][NextPeriod]_vars

NextGuardian == Step(GuardianInputs)

SpecGuardian == Init /\ [][NextGuardian]_vars

NextValidator == Step(ValidatorInputs)

SpecValidator == Init /\ [][NextValidator]_vars

NextWelfare == Step(WelfareInputs)

SpecWelfare == Init /\ [][NextWelfare]_vars

NextLand == Step(LandInputs)

SpecLand == Init /\ [][NextLand]_vars

NextHistory == Step(HistoryInputs)

SpecHistory == Init /\ [][NextHistory]_vars

NextConcurrent ==
  \/ \E id \in SessionIds, c \in ConcurrentInputs.categories :
       StartFormSession(id, c) /\ UNCHANGED in_flight
  \/ \E id \in SessionIds : CloseFormSession(id) /\ UNCHANGED in_flight
  \/ \E id \in SessionIds, u \in ConcurrentInputs.utterances :
       \E c \in (IF HasSession(id) THEN {} ELSE ConcurrentInputs.categories) \cup {NoneValue} :
         /\ Len(in_flight) < MaxInFlight
         /\ SubmitChat(id, u, c)
  \/ \E k \in 1..Len(in_flight) :
       RunChat(k, ConcurrentInputs.services) /\ WithinBounds(ConcurrentInputs.turns)'

SpecConcurrent == Init /\ [][NextConcurrent]_vars

NextMixed ==
  \/ Step(MixedInputs)
  \/ \E id \in SessionIds : GetUnfilledFields(id) /\ WithinBounds(MixedInputs.turns)'
                             /\ UNCHANGED in_flight

SpecMixed == Init /\ [][NextMixed]_vars

----------------------------------------------------------------------------
(* Properties of the field operations *)

\* The sessions held by the store
Sessions == {form_session_store[id] : id \in DOMAIN form_session_store}

\* The (document, field, value) arguments update_form_field is applied to
UpdateArguments(session) ==
  UNION {{[document |-> d, field |-> f, value |-> v] :
            d \in DocNames(session) \cup {UnknownDocument}, v \in ValuesFor(f)} :
           f \in FieldIds(session)}

Updated(session, a) == update_form_field(session, a.document, a.field, a.value)

\* The members of the group of a field, as (document index, field) pairs
GroupMembers(session, field) ==
  LET groups == COMMON_FIELD_GROUPS_BY_CATEGORY(session.category)
      g == GroupOf(session.category, field)
  IN IF g = 0 THEN {}
     ELSE {m \in (1..Len(session.documents)) \X groups[g] :
             m[2] \in DOMAIN session.documents[m[1]].fields}

ValueAt(session, m) == session.documents[m[1]].fields[m[2]]

\* C1: in every reachable state each document's filled_count equals the
\* number of its fields whose value is not "".
C1_FilledCountMatchesFields ==
  \A session \in Sessions : \A i \in 1..Len(session.documents) :
    session.documents[i].filled_count = NonEmptyCount(session.documents[i])

\* C2: update_form_field is idempotent: applied a second time with the same
\* document, field and value right after the first, it leaves the whole
\* session (all values, all filled_count) as the first application left it.
C2_UpdateIsIdempotent ==
  \A session \in Sessions : \A a \in UpdateArguments(session) :
    Updated(Updated(session, a), a) = Updated(session, a)

\* C3: the propagation of update_form_field changes no group member, other
\* than the updated field itself, whose value was not "" before the call.
C3_PropagationKeepsFilledMembers ==
  \A session \in Sessions : \A a \in UpdateArguments(session) :
    \A m \in GroupMembers(session, a.field) :
      (/\ ~ (session.documents[m[1]].name = a.document /\ m[2] = a.field)
       /\ ValueAt(session, m) # EMPTY)
        => ValueAt(Updated(session, a), m) = ValueAt(session, m)

\* C3 witness: an update has been applied and two members of one group hold
\* different non-empty values, one of them a real value
C3_Witness ==
  /\ last.op = "update" /\ last.ok
  /\ \E session \in Sessions :
       \E m \in GroupMembers(session, delegator_name),
          n \in GroupMembers(session, delegator_name) :
         /\ ValueAt(session, m) = NA
         /\ ValueAt(session, n) = Kim

\* C4: after update_form_field writes a real value into a member of a group,
\* no member of that group is "" in any document, the member with the same
\* field id in another document included.
C4_RealValueFillsWholeGroup ==
  \A session \in Sessions : \A a \in UpdateArguments(session) :
    (/\ update_form_field_ok(session, a.document, a.field)
     /\ IsRealValue(a.value))
      => \A m \in GroupMembers(session, a.field) :
           ValueAt(Updated(session, a), m) # EMPTY

\* C9: one call of get_unfilled_fields returns at most one candidate per
\* common-field group of the session's category.
C9_OneCandidatePerGroup ==
  \A session \in Sessions :
    LET unfilled == get_unfilled_fields(session)
        groups == COMMON_FIELD_GROUPS_BY_CATEGORY(session.category)
    IN \A g \in 1..Len(groups) :
         Cardinality({k \in 1..Len(unfilled) : unfilled[k].field \in groups[g]}) <= 1

\* C9 witness: the same member id is "" in two documents, no member of its
\* group holds a real value, and the list names the group once
C9_Witness ==
  \E session \in Sessions :
    LET unfilled == get_unfilled_fields(session)
        empty == {m \in GroupMembers(session, signature_applicant_name) :
                    ValueAt(session, m) = EMPTY}
    IN /\ \E m \in empty, n \in empty : m[1] # n[1] /\ m[2] = n[2]
       /\ Cardinality({k \in 1..Len(unfilled) :
                         unfilled[k].field \in MonthlyGroups[1]}) = 1

----------------------------------------------------------------------------
(* Properties of the derived month count *)

\* The prefixes p for which a document has the four inputs and p.total_months
PeriodPrefixes(doc) ==
  {p \in {PrefixBeforeLastDot(f) : f \in {x \in DOMAIN doc.fields : Contains(x, Dot)}} :
     {Field(p, start_year), Field(p, start_month), Field(p, end_year),
      Field(p, end_month), Field(p, total_months)} \subseteq DOMAIN doc.fields}

PeriodInputFields(p) ==
  {Field(p, start_year), Field(p, start_month), Field(p, end_year), Field(p, end_month)}

AllInputsAreIntegers(doc, p) ==
  \A f \in PeriodInputFields(p) : doc.fields[f] # EMPTY /\ IntParses(doc.fields[f])

\* max(0, (end_year - start_year) * 12 + (end_month - start_month)) as a string
ExpectedMonths(doc, p) ==
  LET raw == (IntOf(doc.fields[Field(p, end_year)])
                - IntOf(doc.fields[Field(p, start_year)])) * 12
             + (IntOf(doc.fields[Field(p, end_month)])
                - IntOf(doc.fields[Field(p, start_month)]))
  IN IntToStr(IF raw > 0 THEN raw ELSE 0)

\* C5 as stated: after an update of one of the four inputs that leaves all
\* four non-empty integers, p.total_months is the clamped month count, and
\* the document's filled_count has risen by one exactly when p.total_months
\* was "" before.
C5_MonthCountAndCountRisesByOne ==
  \A session \in Sessions : \A a \in UpdateArguments(session) :
    a.document \in DocNames(session) =>
      LET i == DocIndex(session, a.document)
          before == session.documents[i]
          after == Updated(session, a).documents[i]
      IN \A p \in PeriodPrefixes(before) :
           (a.field \in PeriodInputFields(p) /\ AllInputsAreIntegers(after, p))
             => /\ after.fields[Field(p, total_months)] = ExpectedMonths(after, p)
                /\ (after.filled_count - before.filled_count = 1)
                     <=> (before.fields[Field(p, total_months)] = EMPTY)

\* C5 amended: after an update of one of the four inputs that leaves all four
\* non-empty integers, p.total_months is the clamped month count, and the
\* document's filled_count has risen by the updated input's own transition
\* (one when the input was "" before) plus one exactly when p.total_months
\* was "" before.
C5_MonthCountAndCountRisesPerField ==
  \A session \in Sessions : \A a \in UpdateArguments(session) :
    a.document \in DocNames(session) =>
      LET i == DocIndex(session, a.document)
          before == session.documents[i]
          after == Updated(session, a).documents[i]
      IN \A p \in PeriodPrefixes(before) :
           (a.field \in PeriodInputFields(p) /\ AllInputsAreIntegers(after, p))
             => /\ after.fields[Field(p, total_months)] = ExpectedMonths(after, p)
                /\ after.filled_count =
                     before.filled_count
                       + (IF before.fields[a.field] = EMPTY THEN 1 ELSE 0)
                       + (IF before.fields[Field(p, total_months)] = EMPTY THEN 1 ELSE 0)

\* C5 witness: an update has left 2024-03 .. 2024-01, an end before its start,
\* and p.total_months holds "0"
C5_Witness ==
  /\ last.op = "update" /\ last.ok
  /\ \E session \in Sessions : \E i \in 1..Len(session.documents) :
       LET doc == session.documents[i]
       IN /\ receive_period \in PeriodPrefixes(doc)
          /\ doc.fields[Field(receive_period, start_year)] = Y2024
          /\ doc.fields[Field(receive_period, start_month)] = M03
          /\ doc.fields[Field(receive_period, end_year)] = Y2024
          /\ doc.fields[Field(receive_period, end_month)] = M01
          /\ doc.fields[Field(receive_period, total_months)] = <<"0">>

----------------------------------------------------------------------------
(* Properties of the guardian step *)

\* A step that is a chat turn of the session, and the session it starts from
ChatStep(session_id) ==
  last'.op = "chat" /\ last'.session_id = session_id /\ ~ last'.error

TurnStart(session_id) ==
  IF HasSession(session_id) THEN form_session_store[session_id]
  ELSE init_form_session(form_session_store'[session_id].category)

TurnEnd(session_id) == form_session_store'[session_id]

\* The turn is answered by the guardian step: the pseudo-field heads the
\* unfilled list and the edit-mode check has not returned before
GuardianQuestionPending(session, user_input) ==
  LET unfilled == get_unfilled_fields(session)
  IN /\ ~ (/\ session.final_confirmation_shown
           /\ ~ session.completed
           /\ ContainsAny(user_input, confirmation_negative_keywords))
     /\ ~ session.guardian_checked
     /\ unfilled # << >>
     /\ unfilled[1].field = guardian_exists_field

MatchesNegative(user_input) == ContainsAny(user_input, guardian_negative_keywords)

MatchesPositive(user_input) == ContainsAny(user_input, guardian_positive_keywords)

IsGuardianField(field) == Contains(field, guardian_field_pattern)

EmptyGuardianFields(doc) ==
  {f \in DOMAIN doc.fields : IsGuardianField(f) /\ doc.fields[f] = EMPTY}

\* C6: a turn that starts with the guardian question pending and whose
\* utterance matches only the negative vocabulary sets CONFIRMED_ABSENT, writes
\* "N/A" into every guardian field that was "" (one filled transition each),
\* and changes no other field.
C6_NegativeAnswerFillsGuardianFields ==
  [][\A id \in SessionIds :
       (/\ ChatStep(id)
        /\ GuardianQuestionPending(TurnStart(id), last'.user_input)
        /\ MatchesNegative(last'.user_input)
        /\ ~ MatchesPositive(last'.user_input))
         => LET before == TurnStart(id)
                after == TurnEnd(id)
            IN /\ after.guardian_checked /\ after.guardian_exists = "False"
               /\ \A i \in 1..Len(before.documents) :
                    LET old == before.documents[i]
                        new == after.documents[i]
                    IN /\ \A f \in DOMAIN old.fields :
                            new.fields[f] = IF f \in EmptyGuardianFields(old) THEN NA
                                            ELSE old.fields[f]
                       /\ new.filled_count =
                            old.filled_count + Cardinality(EmptyGuardianFields(old))]_vars

\* C7: a turn that starts with the guardian question pending and whose
\* utterance matches only the positive vocabulary sets CONFIRMED_PRESENT and
\* changes no field value and no filled_count; the unfilled list then holds
\* every empty guardian field as an ordinary candidate.
C7_PositiveAnswerKeepsFields ==
  [][\A id \in SessionIds :
       (/\ ChatStep(id)
        /\ GuardianQuestionPending(TurnStart(id), last'.user_input)
        /\ MatchesPositive(last'.user_input)
        /\ ~ MatchesNegative(last'.user_input))
         => LET before == TurnStart(id)
                after == TurnEnd(id)
                unfilled == get_unfilled_fields(after)
            IN /\ after.guardian_checked /\ after.guardian_exists = "True"
               /\ after.documents = before.documents
               /\ \A k \in 1..Len(unfilled) : unfilled[k].field # guardian_exists_field
               /\ \A i \in 1..Len(after.documents) :
                    \A f \in EmptyGuardianFields(after.documents[i]) :
                      \E k \in 1..Len(unfilled) :
                        /\ unfilled[k].document = after.documents[i].name
                        /\ unfilled[k].field = f]_vars

\* C7 witness: the turn "네" has been answered by the guardian step, the
\* guardian is recorded as present and a guardian field is still ""
C7_Witness ==
  /\ last.op = "chat" /\ ~ last.error
  /\ last.user_input = U_yes
  /\ last.reply.kind = "guardian_present"
  /\ \E session \in Sessions :
       /\ session.guardian_checked /\ session.guardian_exists = "True"
       /\ \E i \in 1..Len(session.documents) :
            EmptyGuardianFields(session.documents[i]) # {}

\* C8: a turn that starts with the guardian question pending and whose
\* utterance matches both vocabularies, or neither, leaves the guardian state
\* UNCHECKED, changes no field and no counter, and re-asks the guardian
\* question.
C8_AmbiguousAnswerReasks ==
  [][\A id \in SessionIds :
       (/\ ChatStep(id)
        /\ GuardianQuestionPending(TurnStart(id), last'.user_input)
        /\ MatchesPositive(last'.user_input) <=> MatchesNegative(last'.user_input))
         => LET before == TurnStart(id)
                after == TurnEnd(id)
            IN /\ ~ after.guardian_checked /\ after.guardian_exists = NoneValue
               /\ after.documents = before.documents
               /\ last'.reply.response = GuardianReaskMessage]_vars

----------------------------------------------------------------------------
(* Properties of the response validation *)

\* The third check as a statement about descriptions: the turn asks for the
\* description of a field that already holds a real value
AsksFilledDescription(response_text, session) ==
  \E d \in filled_field_descriptions(session) : \E suffix \in ask_suffixes :
    Contains(response_text, d \o suffix)

ViolatesAValidationCheck(response_text, session) ==
  \/ ContainsCompletion(response_text)
  \/ ~ EndsWithQuestion(response_text)
  \/ AsksFilledDescription(response_text, session)

\* C10: in a chat turn whose unfilled list is non-empty after the updates,
\* the returned text is the fallback question naming the first unfilled
\* description if and only if the generated turn violates one of the three
\* checks; a generated turn that violates none is returned as generated.
C10_FallbackIffCheckViolated ==
  \A id \in DOMAIN form_session_store :
    (/\ last.op = "chat" /\ ~ last.error /\ last.session_id = id
     /\ last.reply.kind = "question"
     /\ last.generated.kind = "ok")
      => LET session == form_session_store[id]
             unfilled == get_unfilled_fields(session)
             generated == last.generated.text
             violates == ViolatesAValidationCheck(generated, session)
         IN /\ (last.reply.response = NextFieldMessage(unfilled[1].description))
                 <=> violates
            /\ ~ violates => last.reply.response = generated

----------------------------------------------------------------------------
(* Properties of the final confirmation *)

\* C11: completed becomes true only in a turn that starts with
\* final_confirmation_shown set and whose utterance matches no negative/modify
\* keyword; a turn returning completed = true starts with the flag set; the
\* flag is set only by a summary turn, which returns completed = false and
\* awaiting_confirmation = true; and a turn that starts without the flag and
\* ends with an empty unfilled list is such a summary turn.  No other
\* operation sets either flag.
C11_CompletedOnlyAfterSummary ==
  [][\A id \in SessionIds :
       /\ ChatStep(id) =>
            LET before == TurnStart(id)
                after == TurnEnd(id)
                reply == last'.reply
            IN /\ (after.completed /\ ~ before.completed)
                    => /\ before.final_confirmation_shown
                       /\ ~ ContainsAny(last'.user_input, confirmation_negative_keywords)
               /\ reply.completed => before.final_confirmation_shown /\ after.completed
               /\ (after.final_confirmation_shown /\ ~ before.final_confirmation_shown)
                    => reply.awaiting_confirmation /\ ~ reply.completed
               /\ (~ before.final_confirmation_shown /\ get_unfilled_fields(after) = << >>)
                    => /\ reply.awaiting_confirmation /\ ~ reply.completed
                       /\ after.final_confirmation_shown /\ ~ after.completed
       /\ (last'.op # "chat" /\ id \in DOMAIN form_session_store')
            => LET after == form_session_store'[id]
               IN /\ after.completed => HasSession(id) /\ form_session_store[id].completed
                  /\ after.final_confirmation_shown
                       => HasSession(id) /\ form_session_store[id].final_confirmation_shown
    ]_vars

\* C11 witness: the turn after the summary turn has been answered with "네"
\* and has returned completed = true
C11_Witness ==
  /\ last.op = "chat" /\ ~ last.error
  /\ last.user_input = U_yes
  /\ last.reply.completed /\ last.reply.kind = "submitted"
  /\ \E session \in Sessions : session.completed /\ session.final_confirmation_shown

----------------------------------------------------------------------------
(* Properties of the candidates asked over a session *)

\* The (document, field) candidates of a list that belong to group g
CandidatesOf(session, unfilled, g) ==
  {<<unfilled[k].document, unfilled[k].field>> :
     k \in {j \in 1..Len(unfilled) :
              unfilled[j].field \in COMMON_FIELD_GROUPS_BY_CATEGORY(session.category)[g]}}

\* C12: within a session at most one (document, field) member of a common-field
\* group is ever a candidate: when the list a turn starts from names a member
\* of a group, the list the turn ends with names no other member of that group.
C12_OneMemberAskedPerGroup ==
  [][\A id \in SessionIds :
       ChatStep(id) =>
         LET before == TurnStart(id)
             after == TurnEnd(id)
             groups == COMMON_FIELD_GROUPS_BY_CATEGORY(before.category)
         IN \A g \in 1..Len(groups) :
              \A m \in CandidatesOf(before, get_unfilled_fields(before), g) :
                CandidatesOf(after, get_unfilled_fields(after), g) \subseteq {m}]_vars

----------------------------------------------------------------------------
(* Properties of session creation, removal and lookup *)

\* The fields of a category's templates that are asked from the user: not
\* auto-calculated ones
RequiredEntries(category) ==
  LET entries == Entries(init_form_session(category))
  IN {k \in 1..Len(entries) : ~ ContainsAny(entries[k].field, auto_calculated_patterns)}

\* Their number after each common-field group is collapsed to one slot
RequiredSlots(category) ==
  LET entries == Entries(init_form_session(category))
      required == RequiredEntries(category)
  IN Cardinality({GroupOf(category, entries[k].field) : k \in required} \ {0})
     + Cardinality({k \in required : GroupOf(category, entries[k].field) = 0})

\* C13: initial_total_fields of every session is the number of required
\* fields of its templates after group collapsing, guardian fields included.
C13_InitialTotalIsRequiredSlots ==
  \A session \in Sessions : session.initial_total_fields = RequiredSlots(session.category)

\* C14: close_form_session on an existing session removes the session and
\* the chat history of that id in the one step and returns the session as it
\* was; on an unknown id it returns None and changes neither store.
C14_CloseRemovesSessionAndHistory ==
  [][\A id \in SessionIds :
       (last'.op = "close" /\ last'.session_id = id) =>
         IF HasSession(id) THEN
           /\ last'.found /\ last'.result = form_session_store[id]
           /\ id \notin DOMAIN form_session_store'
           /\ id \notin DOMAIN chat_history_store'
           /\ \A other \in DOMAIN form_session_store \ {id} :
                /\ other \in DOMAIN form_session_store'
                /\ form_session_store'[other] = form_session_store[other]
         ELSE
           /\ ~ last'.found /\ last'.result = NoneValue
           /\ UNCHANGED <<form_session_store, chat_history_store>>]_vars

\* C14 witness: a session that held an answer has been closed and returned,
\* and neither store holds its id
C14_Witness ==
  /\ last.op = "close" /\ last.found
  /\ \E i \in 1..Len(last.result.documents) :
       NonEmptyCount(last.result.documents[i]) > 0
  /\ last.session_id \notin DOMAIN form_session_store
  /\ last.session_id \notin DOMAIN chat_history_store

\* C15: an operation on a session id that is not in the store returns its
\* not-found outcome and leaves both stores as they were (a chat turn without
\* a category, update_form_field, get_form_session, get_filled_form,
\* close_form_session); a session appears in the store only by start or by a
\* chat turn that names a category.
C15_UnknownIdChangesNothing ==
  [][\A id \in SessionIds :
       (~ HasSession(id) /\ last'.op # "none" /\ last'.session_id = id) =>
         /\ (last'.op = "chat" /\ last'.category = NoneValue)
              => last'.error /\ UNCHANGED <<form_session_store, chat_history_store>>
         /\ last'.op = "update"
              => ~ last'.ok /\ UNCHANGED <<form_session_store, chat_history_store>>
         /\ last'.op \in {"status", "result", "close"}
              => /\ ~ last'.found /\ last'.result = NoneValue
                 /\ UNCHANGED <<form_session_store, chat_history_store>>
         /\ id \in DOMAIN form_session_store'
              => \/ last'.op = "start"
                 \/ last'.op = "chat" /\ last'.category # NoneValue /\ last'.created]_vars

\* C15 witness: a chat turn without a category has been refused for an id
\* that no store holds
C15_Witness ==
  /\ last.op = "chat" /\ last.error /\ last.category = NoneValue
  /\ last.session_id \notin DOMAIN form_session_store
  /\ last.session_id \notin DOMAIN chat_history_store

----------------------------------------------------------------------------
(* Properties of the export back-fill *)

\* A step in which get_filled_form has acted on the session of the id
ResultStep(session_id) ==
  last'.op = "result" /\ last'.session_id = session_id /\ last'.found

\* The field values of a session, per document
FieldValues(session) ==
  [i \in 1..Len(session.documents) |-> session.documents[i].fields]

\* C16: after get_filled_form no member of a group that holds a real value
\* is "", no member that was non-empty has changed, and on sessions all of
\* whose writes went through update_form_field the back-fill changes no field.
C16_BackfillIsDefensive ==
  [][\A id \in SessionIds :
       ResultStep(id) =>
         LET before == form_session_store[id]
             after == form_session_store'[id]
             groups == COMMON_FIELD_GROUPS_BY_CATEGORY(before.category)
         IN /\ \A g \in filled_groups(after) :
                 \A i \in 1..Len(after.documents) :
                   \A f \in groups[g] \cap DOMAIN after.documents[i].fields :
                     after.documents[i].fields[f] # EMPTY
            /\ \A i \in 1..Len(before.documents) :
                 \A f \in DOMAIN before.documents[i].fields :
                   before.documents[i].fields[f] # EMPTY
                     => after.documents[i].fields[f] = before.documents[i].fields[f]
            /\ last'.result = FilledForm(after)
            /\ FieldValues(after) = FieldValues(before)]_vars

\* C17: init_form_session on an id that already holds a session overwrites
\* everything kept for the id: the stored session is the fresh one (every
\* field "", every filled_count 0, completed and final_confirmation_shown
\* false, guardian state unchecked) and the history kept for the id holds no
\* message of the earlier session.
C17_CreateOverwritesEverything ==
  [][\A id \in SessionIds :
       (last'.op = "start" /\ last'.session_id = id /\ HasSession(id)) =>
         LET after == form_session_store'[id]
         IN /\ after = init_form_session(last'.category)
            /\ \A i \in 1..Len(after.documents) :
                 /\ after.documents[i].filled_count = 0
                 /\ \A f \in DOMAIN after.documents[i].fields :
                      after.documents[i].fields[f] = EMPTY
            /\ ~ after.completed /\ ~ after.final_confirmation_shown
            /\ ~ after.guardian_checked /\ after.guardian_exists = NoneValue
            /\ id \in DOMAIN chat_history_store' => chat_history_store'[id] = << >>]_vars

----------------------------------------------------------------------------
(* Properties of the "N/A" value *)

\* C18: "N/A" is never copied from one member of a common-field group into
\* another: update_form_field writing "N/A" (the skip force-fill writes through
\* it) makes no other member "N/A", the export back-fill makes no field
\* "N/A", and a field that receives "N/A" while "" counts in filled_count.
C18_NotApplicableIsNotPropagated ==
  \A session \in Sessions :
    /\ \A a \in UpdateArguments(session) :
         (a.value = NA /\ update_form_field_ok(session, a.document, a.field)) =>
           LET i == DocIndex(session, a.document)
               after == Updated(session, a)
           IN /\ \A m \in GroupMembers(session, a.field) :
                   (~ (m[1] = i /\ m[2] = a.field) /\ ValueAt(after, m) = NA)
                     => ValueAt(session, m) = NA
              /\ session.documents[i].fields[a.field] = EMPTY
                   => after.documents[i].filled_count
                        >= session.documents[i].filled_count + 1
    /\ \A filled \in fill_common_fields_for_pdf(session) :
         \A i \in 1..Len(session.documents) :
           \A f \in DOMAIN session.documents[i].fields :
             filled.documents[i].fields[f] = NA => session.documents[i].fields[f] = NA

----------------------------------------------------------------------------
(* Properties of the chat history and of the guardian question *)

\* C19: in every reachable state the history kept for a session holds at
\* most 6 messages, right after a generated turn has been saved included.
C19_HistoryHoldsAtMostSix ==
  \A id \in DOMAIN chat_history_store : Len(chat_history_store[id]) <= 6

\* C20: for a session that has a guardian-prefixed field and whose guardian
\* state is unchecked, get_unfilled_fields returns exactly one candidate, the
\* guardian-existence pseudo-field, whatever the field values are.
C20_UncheckedGuardianAsksExistenceOnly ==
  \A session \in Sessions :
    (/\ \E f \in FieldIds(session) : IsGuardianField(f)
     /\ ~ session.guardian_checked)
      => LET unfilled == get_unfilled_fields(session)
         IN Len(unfilled) = 1 /\ unfilled[1].field = guardian_exists_field

----------------------------------------------------------------------------
(* Properties of the guardian state and of the resolver *)

HasPseudoField(unfilled) ==
  \E k \in 1..Len(unfilled) : unfilled[k].field = guardian_exists_field

\* C21: a chat turn of a session whose guardian state is CONFIRMED_ABSENT or
\* CONFIRMED_PRESENT leaves that state as it is, and the guardian pseudo-field
\* is in the unfilled list neither when the turn starts nor when it ends.
C21_ConfirmedGuardianStateIsTerminal ==
  [][\A id \in SessionIds :
       (ChatStep(id) /\ TurnStart(id).guardian_checked)
         => LET before == TurnStart(id)
                after == TurnEnd(id)
            IN /\ after.guardian_checked
               /\ after.guardian_exists = before.guardian_exists
               /\ ~ HasPseudoField(get_unfilled_fields(before))
               /\ ~ HasPseudoField(get_unfilled_fields(after))]_vars

\* C21 witness: a turn answered by the generation service on a session whose
\* guardian is recorded as present and that still has an empty guardian field;
\* the turn that records the guardian as present returns before generation, so
\* this turn started with the state already confirmed
C21_Witness ==
  /\ last.op = "chat" /\ ~ last.error
  /\ last.reply.kind = "question"
  /\ \E session \in Sessions :
       /\ session.guardian_checked /\ session.guardian_exists = "True"
       /\ \E i \in 1..Len(session.documents) :
            EmptyGuardianFields(session.documents[i]) # {}

\* C22: for a session whose guardian state is CONFIRMED_ABSENT the resolver
\* returns no field whose id carries the guardian prefix, whatever the values
\* of the guardian fields are.
C22_AbsentGuardianFieldsAreExcluded ==
  \A session \in Sessions :
    (session.guardian_checked /\ session.guardian_exists = "False")
      => LET unfilled == get_unfilled_fields(session)
         IN \A k \in 1..Len(unfilled) : ~ IsGuardianField(unfilled[k].field)

\* C22 witness: the guardian is recorded as absent and a guardian field has
\* been emptied again, next to an ordinary field that is listed
C22_Witness ==
  \E session \in Sessions :
    /\ session.guardian_checked /\ session.guardian_exists = "False"
    /\ \E i \in 1..Len(session.documents) : EmptyGuardianFields(session.documents[i]) # {}
    /\ get_unfilled_fields(session) # << >>

\* The derived-field naming patterns: month count, duration, total days
DerivedFieldPatterns == {total_months, <<"duration">>, <<"total", "_", "days">>}

IsDerivedField(field) == ContainsAny(field, DerivedFieldPatterns)

Listed(unfilled, document, field) ==
  \E k \in 1..Len(unfilled) : unfilled[k].document = document /\ unfilled[k].field = field

\* C23: when the guardian pseudo-field is not pending, the resolver's list
\* holds every field with value "" that is in no common-field group, is not
\* excluded as a guardian field and is not a derived field (so the empty
\* start/end year and month inputs of a month count are listed), and it holds
\* no derived field.
C23_UngroupedEmptyFieldsAreListed ==
  \A session \in Sessions :
    LET unfilled == get_unfilled_fields(session)
        entries == Entries(session)
        absent == session.guardian_checked /\ session.guardian_exists = "False"
    IN ~ HasPseudoField(unfilled)
         => /\ \A k \in 1..Len(entries) :
                 (/\ entries[k].value = EMPTY
                  /\ GroupOf(session.category, entries[k].field) = 0
                  /\ ~ (absent /\ IsGuardianField(entries[k].field))
                  /\ ~ IsDerivedField(entries[k].field))
                   => Listed(unfilled, entries[k].document, entries[k].field)
            /\ \A k \in 1..Len(unfilled) : ~ IsDerivedField(unfilled[k].field)

\* The positions, in iteration order, of the members of group g, and the
\* position of a candidate
MemberPositions(session, g) ==
  LET entries == Entries(session)
  IN {k \in 1..Len(entries) :
        entries[k].field \in COMMON_FIELD_GROUPS_BY_CATEGORY(session.category)[g]}

PositionOf(session, candidate) ==
  LET entries == Entries(session)
  IN CHOOSE k \in 1..Len(entries) :
       entries[k].document = candidate.document /\ entries[k].field = candidate.field

\* The statement about one list: per group no member when the group holds a
\* real value, otherwise exactly the first member with value "" when there is
\* one; and the candidates in iteration order
GroupsAreDeduplicated(session, unfilled) ==
  LET entries == Entries(session)
      groups == COMMON_FIELD_GROUPS_BY_CATEGORY(session.category)
  IN /\ \A g \in 1..Len(groups) :
          LET members == MemberPositions(session, g)
              empties == {k \in members : entries[k].value = EMPTY}
              listed == {k \in members :
                           Listed(unfilled, entries[k].document, entries[k].field)}
          IN IF \E k \in members : IsRealValue(entries[k].value) THEN listed = {}
             ELSE empties # {}
                    => listed = {CHOOSE k \in empties : \A j \in empties : k <= j}
     /\ \A k \in 1..Len(unfilled) :
          \E j \in 1..Len(entries) :
            entries[j].document = unfilled[k].document /\ entries[j].field = unfilled[k].field
     /\ \A k \in 1..(Len(unfilled) - 1) :
          PositionOf(session, unfilled[k]) < PositionOf(session, unfilled[k + 1])

\* C24: for each common-field group the resolver's list holds no member of
\* the group when some member in some document holds a real value; otherwise,
\* if a member is "", it holds exactly the first member with value "" in the
\* order documents-then-fields; and the list keeps that order.
C24_FirstEmptyMemberPerGroup ==
  \A session \in Sessions : GroupsAreDeduplicated(session, get_unfilled_fields(session))

\* C24 as it holds: the same statement for the lists the resolver returns when
\* the guardian pseudo-field is not pending.
C24_FirstEmptyMemberPerGroupUnlessPending ==
  \A session \in Sessions :
    LET unfilled == get_unfilled_fields(session)
    IN ~ HasPseudoField(unfilled) => GroupsAreDeduplicated(session, unfilled)

\* C24 witness: a group has two members with value "" in two documents and no
\* real value, and the list names the first of them
C24_Witness ==
  \E session \in Sessions :
    LET unfilled == get_unfilled_fields(session)
        entries == Entries(session)
        groups == COMMON_FIELD_GROUPS_BY_CATEGORY(session.category)
    IN \E g \in 1..Len(groups) :
         LET members == MemberPositions(session, g)
             empties == {k \in members : entries[k].value = EMPTY}
         IN /\ ~ \E k \in members : IsRealValue(entries[k].value)
            /\ \E k \in members : entries[k].value = NA
            /\ \E j, k \in empties : entries[j].document # entries[k].document
            /\ \E k \in empties : Listed(unfilled, entries[k].document, entries[k].field)

----------------------------------------------------------------------------
(* Properties of the turn handler *)

\* C26: a chat turn that starts with the guardian pseudo-field pending does
\* not call the extraction service and returns from the guardian handling,
\* whatever the keyword match gives and also when no field remains unfilled
\* after the guardian decision.
C26_PendingGuardianTurnSkipsExtraction ==
  [][\A id \in SessionIds :
       (ChatStep(id) /\ GuardianQuestionPending(TurnStart(id), last'.user_input))
         => /\ ~ last'.extraction_called
            /\ last'.reply.kind \in {"guardian_absent", "guardian_present", "guardian_reask"}
    ]_vars

\* The turn goes on to the extraction step: it returns neither from the
\* edit-mode check nor from the guardian handling, and a field is unfilled
ReachesExtraction(session, user_input) ==
  LET unfilled == get_unfilled_fields(session)
  IN /\ ~ (/\ session.final_confirmation_shown
           /\ ~ session.completed
           /\ ContainsAny(user_input, confirmation_negative_keywords))
     /\ unfilled # << >>
     /\ unfilled[1].field # guardian_exists_field

MatchesSkip(user_input) == ContainsAny(user_input, skip_keywords)

FieldAt(session, document, field) ==
  session.documents[DocIndex(session, document)].fields[field]

\* field is one of the given fields or shares a common-field group with one
NamedOrGroupMate(session, field, fields) ==
  \/ field \in fields
  \/ /\ GroupOf(session.category, field) # 0
     /\ \E f \in fields : GroupOf(session.category, f) = GroupOf(session.category, field)

\* C27: in a chat turn whose utterance matches the skip vocabulary and in
\* which extraction yields nothing, each of the first up-to-5 entries of the
\* unfilled list holds "N/A" after the turn, in the document the entry names,
\* and no field other than those entries and their propagation targets
\* changes; when extraction yields a field, nothing is force-filled: only the
\* extracted fields and their propagation targets change.
C27_SkipForceFillsAskedEntries ==
  [][\A id \in SessionIds :
       (/\ ChatStep(id)
        /\ ReachesExtraction(TurnStart(id), last'.user_input)
        /\ MatchesSkip(last'.user_input))
         => LET before == TurnStart(id)
                after == TurnEnd(id)
                asked == Take(get_unfilled_fields(before), 5)
                asked_fields == {asked[k].field : k \in 1..Len(asked)}
                extracted_fields == {last'.extracted[k].field : k \in 1..Len(last'.extracted)}
                Changed(i, f) == after.documents[i].fields[f] # before.documents[i].fields[f]
            IN IF last'.extracted = << >> THEN
                 /\ \A k \in 1..Len(asked) :
                      FieldAt(after, asked[k].document, asked[k].field) = NA
                 /\ \A i \in 1..Len(before.documents) :
                      \A f \in DOMAIN before.documents[i].fields :
                        Changed(i, f) => NamedOrGroupMate(before, f, asked_fields)
               ELSE
                 \A i \in 1..Len(before.documents) :
                   \A f \in DOMAIN before.documents[i].fields :
                     Changed(i, f) => NamedOrGroupMate(before, f, extracted_fields)]_vars

\* C28: a turn that starts with final_confirmation_shown true and completed
\* false and whose utterance matches the negative/modify vocabulary resets
\* final_confirmation_shown, leaves completed false and changes no field; the
\* turn that follows it runs extraction on its utterance, so that a filled
\* field can be changed before the summary is shown again.
C28_EditModeReturnsToExtraction ==
  [][\A id \in SessionIds :
       ChatStep(id) =>
         LET before == TurnStart(id)
             after == TurnEnd(id)
         IN /\ (/\ before.final_confirmation_shown
                /\ ~ before.completed
                /\ ContainsAny(last'.user_input, confirmation_negative_keywords))
                 => /\ ~ after.final_confirmation_shown
                    /\ ~ after.completed
                    /\ after.documents = before.documents
                    /\ last'.reply.response = EditModeMessage
            /\ (/\ last.op = "chat"
                /\ last.session_id = id
                /\ ~ last.error
                /\ last.reply.response = EditModeMessage)
                 => last'.extraction_called]_vars

\* C29: when the extraction service raises or answers without a parseable
\* mapping, the turn takes the extraction as empty: it applies no field
\* update from the answer, it does not abort, and it returns a turn result
\* with completed = false while fields remain unfilled.
C29_FailedExtractionIsEmpty ==
  [][\A id \in SessionIds :
       (ChatStep(id) /\ last'.extraction_response \in {"error", "no_json"})
         => LET before == TurnStart(id)
                after == TurnEnd(id)
            IN /\ last'.extracted = << >>
               /\ last'.reply.extracted_fields = << >>
               /\ (ReachesExtraction(before, last'.user_input)
                     /\ ~ MatchesSkip(last'.user_input))
                    => after.documents = before.documents
               /\ get_unfilled_fields(after) # << >>
                    => /\ ~ last'.reply.completed
                       /\ last'.reply.unfilled_count = Len(get_unfilled_fields(after))]_vars

\* C29 witness: the extraction service answered without a JSON object; the
\* turn has gone on to ask for a field that is still unfilled
C29_Witness ==
  /\ last.op = "chat" /\ ~ last.error
  /\ last.extraction_called /\ last.extraction_response = "no_json"
  /\ last.user_input = U_yes
  /\ last.reply.kind = "question" /\ ~ last.reply.completed
  /\ \E session \in Sessions : get_unfilled_fields(session) # << >>

----------------------------------------------------------------------------
(* Properties of the derived computation on non-numeric inputs *)

SomeInputIsNotAnInteger(doc, p) ==
  \E f \in PeriodInputFields(p) : doc.fields[f] # EMPTY /\ ~ IntParses(doc.fields[f])

\* C30: when an update of a period input leaves one of the four inputs
\* non-empty but not an integer, update_form_field reports success, nothing
\* but the updated field changes, p.total_months is "" afterwards, and a later
\* update of an input that makes all four integers writes the computed
\* p.total_months.
C30_NonNumericInputLeavesMonthsUnset ==
  \A session \in Sessions : \A a \in UpdateArguments(session) :
    a.document \in DocNames(session) =>
      LET i == DocIndex(session, a.document)
          before == session.documents[i]
          updated == Updated(session, a)
          after == updated.documents[i]
      IN \A p \in PeriodPrefixes(before) :
           (a.field \in PeriodInputFields(p) /\ SomeInputIsNotAnInteger(after, p))
             => /\ update_form_field_ok(session, a.document, a.field)
                /\ after.fields[a.field] = a.value
                /\ after.fields[Field(p, total_months)] = EMPTY
                /\ \A b \in UpdateArguments(updated) :
                     (/\ b.document = a.document
                      /\ b.field \in PeriodInputFields(p)
                      /\ AllInputsAreIntegers(Updated(updated, b).documents[i], p))
                       => Updated(updated, b).documents[i].fields[Field(p, total_months)]
                            = ExpectedMonths(Updated(updated, b).documents[i], p)

----------------------------------------------------------------------------
(* Properties of the extraction step and of the turn sequence *)

\* The field ids given to the extraction service: the first five entries of
\* the unfilled list the turn starts from
TargetFields(session) ==
  LET targets == Take(get_unfilled_fields(session), 5)
  IN {targets[k].field : k \in 1..Len(targets)}

\* C31: in a chat turn the fields written from the extraction result are
\* among the targets given to the service: a field id the service returns
\* that is not a target is written in no document.
C31_OnlyTargetsAreWritten ==
  [][\A id \in SessionIds :
       ChatStep(id) =>
         LET before == TurnStart(id)
             after == TurnEnd(id)
         IN \A k \in 1..Len(last'.extracted) :
              LET f == last'.extracted[k].field
              IN f \notin TargetFields(before)
                   => \A i \in 1..Len(before.documents) :
                        f \in DOMAIN before.documents[i].fields
                          => after.documents[i].fields[f] = before.documents[i].fields[f]]_vars

----------------------------------------------------------------------------
(* Properties of the completed flag *)

\* C33: in every reachable state a session whose completed flag is true has
\* an empty unfilled list and final_confirmation_shown true.
C33_CompletedMeansNothingUnfilled ==
  \A session \in Sessions :
    session.completed
      => get_unfilled_fields(session) = << >> /\ session.final_confirmation_shown

\* C34: completed is absorbing: a chat turn on a session whose completed flag
\* is true returns completed = true and leaves the flag true, whatever the
\* utterance is.
C34_CompletedIsAbsorbing ==
  [][\A id \in SessionIds :
       (ChatStep(id) /\ HasSession(id) /\ form_session_store[id].completed)
         => last'.reply.completed /\ TurnEnd(id).completed]_vars

\* C35: a chat turn that starts with an empty unfilled list (the session
\* awaits confirmation, is in edit mode or is completed) calls neither the
\* extraction nor the generation service and changes no field value and no
\* filled_count.
C35_EmptyListTurnTouchesNothing ==
  [][\A id \in SessionIds :
       (ChatStep(id) /\ get_unfilled_fields(TurnStart(id)) = << >>)
         => /\ ~ last'.extraction_called
            /\ last'.extraction_response = "none"
            /\ last'.generated.kind = "none"
            /\ TurnEnd(id).documents = TurnStart(id).documents]_vars

\* C35 witness: a turn on a stored session has returned the summary without
\* a call of the extraction service, so it started from an empty list
C35_Witness ==
  /\ last.op = "chat" /\ ~ last.error /\ ~ last.created
  /\ ~ last.extraction_called
  /\ last.reply.kind = "summary"
  /\ \E session \in Sessions :
       /\ get_unfilled_fields(session) = << >>
       /\ \E i \in 1..Len(session.documents) : session.documents[i].filled_count > 0


----------------------------------------------------------------------------
(* Progress of a session towards the confirmation summary *)

\* The service has answered the turn with a real value for the first target
\* field of the list the turn started from
CooperativeTurn(session_id) ==
  LET unfilled == get_unfilled_fields(TurnStart(session_id))
  IN /\ ChatStep(session_id)
     /\ ReachesExtraction(TurnStart(session_id), last'.user_input)
     /\ last'.extraction_response = "mapping"
     /\ Len(last'.extracted) = 1
     /\ last'.extracted[1].field = unfilled[1].field
     /\ last'.extracted[1].value \notin {EMPTY, NA}

\* C36: under a cooperative user, for every set of document templates (also
\* one with a non-group field id present in two documents), every turn in
\* which the extraction service returns a real value for the first target
\* field leaves the unfilled list strictly shorter than it found it; the
\* session's way to the confirmation summary rests on this decrease.
C36_CooperativeTurnShortensTheList ==
  [][\A id \in SessionIds :
       CooperativeTurn(id)
         => Len(get_unfilled_fields(TurnEnd(id))) < Len(get_unfilled_fields(TurnStart(id)))]_vars


\* The user has answered a turn that reaches the extraction step with a skip
\* utterance, and the extraction has yielded nothing
SkippingTurn(session_id) ==
  /\ ChatStep(session_id)
  /\ ReachesExtraction(TurnStart(session_id), last'.user_input)
  /\ MatchesSkip(last'.user_input)
  /\ last'.extraction_called
  /\ last'.extracted = << >>

\* C37: under a skipping user, for every set of document templates with more
\* than one document, every turn after the guardian decision that the user
\* answers with a skip utterance, and in which extraction yields nothing,
\* removes at least one entry from the unfilled list; the session's way to
\* the confirmation summary rests on this decrease.
C37_SkippingTurnShortensTheList ==
  [][\A id \in SessionIds :
       (SkippingTurn(id) /\ Len(TurnStart(id).documents) > 1)
         => Len(get_unfilled_fields(TurnEnd(id))) < Len(get_unfilled_fields(TurnStart(id)))]_vars


----------------------------------------------------------------------------
(* Properties of the stored month count *)

\* C38: in every reachable state, a document's non-empty p.total_months comes
\* with four inputs that are all non-empty integers, and equals the clamped
\* month count max(0, (end_year - start_year) * 12 + (end_month - start_month))
\* of their current values; no later update of an input leaves a stale count.
C38_StoredMonthCountIsCurrent ==
  \A session \in Sessions : \A i \in 1..Len(session.documents) :
    LET doc == session.documents[i]
    IN \A p \in PeriodPrefixes(doc) :
         doc.fields[Field(p, total_months)] # EMPTY
           => /\ AllInputsAreIntegers(doc, p)
              /\ doc.fields[Field(p, total_months)] = ExpectedMonths(doc, p)


----------------------------------------------------------------------------
(* Properties of the question handed to the extraction step *)

\* C39: the previous system question passed to the extraction service in a
\* turn is the text of the turn most recently returned to the user for that
\* session, also when that turn was a validator fallback, a guardian
\* question, or an edit-mode or confirmation message produced without the
\* generation service.  Stated for a turn that directly follows the returned
\* turn.
C39_LastQuestionIsLastReturnedTurn ==
  [][\A id \in SessionIds :
       (/\ last.op = "chat" /\ last.session_id = id /\ ~ last.error
        /\ HasSession(id)
        /\ ChatStep(id) /\ last'.extraction_called)
         => last'.last_question = last.reply.response]_vars

====
